---- MODULE Spec2Model ----
(***************************************************************************)
(* Verification model of the SP-API pull scripts:                          *)
(*   - scripts/utils/api_client.py   (RateLimitHandler, RetryStrategy,     *)
(*                                    SPAPIClient.request)                 *)
(*   - scripts/utils/pull_tracker.py + scripts/pull_daily_sales.py         *)
(*                                   (checkpointed region run)             *)
(*   - scripts/pull_sqp.py + scripts/utils/db.py (batch-level resume)      *)
(* Each subsystem has its own next-state relation and specification; the   *)
(* variables of the other subsystems stay at their initial values.         *)
(***************************************************************************)
EXTENDS Integers, Sequences, FiniteSets, TLC

VARIABLES
    \* ---- SPAPIClient / RateLimitHandler (api_client.py) ----
    since_request,  \* time.time() - last_request_time[t] per api type, in ticks of
                    \* half a second, saturated at Horizon (no entry: last_time = 0,
                    \* so the elapsed time is saturated)
    current_limits, \* RateLimitHandler.current_limits (req/s), 0 = no entry
    stats,          \* SPAPIClient.stats
    cpc,            \* "idle" (no call running) or "loop" (inside request's while True)
    api_type,       \* api_type argument of the running / last call
    attempt,        \* local variable attempt of request
    result,         \* how the last call ended: "none", "response" or the raised error
    log,            \* history: outcome of every HTTP attempt of the running / last call
    backoff,        \* history: ticks spent in time.sleep(delay) by the running / last call
    since_sent,     \* history: ticks since the last HTTP request of each api type was
                    \* sent, saturated at Horizon
    gap,            \* history: ticks between the last HTTP request sent and the one
                    \* sent before it on the same api type, saturated at Horizon
    floor,          \* history: get_min_interval of that api type when it was sent
    prevCall,       \* history: api_type of the call that ended before the running one
    calls,          \* history: number of request calls started on this client
    limit_header,   \* history: x-amzn-RateLimit-Limit of the last response the client
                    \* handed to update_from_response, "" when it carried none
    raised,         \* history: number of request calls on this client that raised a
                    \* typed SP-API error
    \* ---- tracked daily sales run (pull_daily_sales.py, pull_tracker.py, db.py) ----
    ckpt,           \* the sp_pull_checkpoints row of the run's (pull type, date, region)
    pulls,          \* the sp_api_pulls row of each marketplace for the date
    imports,        \* status of the latest data_imports row of each marketplace
    rows,           \* whether sp_daily_asin_data holds the upsert of each marketplace
    totals,         \* whether the daily totals of each marketplace were upserted
    tracker,        \* the PullTracker object of the running process
    rpc,            \* position of the running process, "idle" when none runs
    resume,         \* argument resume of the running / last pull_region_data
    skip_existing,  \* argument skip_existing of the running / last pull_region_data
    marketplaces,   \* local marketplaces of pull_region_data: the units it loops over
    idx,            \* number of units the loop has taken up
    asin_count,     \* local asin_count of pull_marketplace_data
    error_msg,      \* local error_msg of pull_marketplace_data, "" when none
    results,        \* local results of pull_region_data: the status of each unit done
    runs,           \* history: number of pull_region_data runs started
    alerts,         \* the Slack payloads the running / last run handed to _send_slack
    http_retries,   \* history: retries the client made inside the report pull of each
                    \* unit of the running / last run
    report_date,    \* argument report_date of pull_region_data: "date" for a fixed
                    \* date, "None" for per-marketplace dates
    exit_code,      \* exit status of the last process that ran to its end, NoExit
                    \* while it runs or after a kill
    \* ---- SQP/SCP pull of one (marketplace, report type, period) (pull_sqp.py, db.py) ----
    sqp_pull,       \* the sp_sqp_pulls row of the key
    spc,            \* position of the running pull_for_marketplace, "idle" when none runs
    sqp_resume,     \* argument resume of the running / last pull_for_marketplace
    sqp_force,      \* argument force of the running / last pull_for_marketplace
    existing,       \* local existing: the row as get_existing_sqp_pull returned it
    total_batches,  \* len(batches) of the running / last pull_for_marketplace
    batch_idx,      \* loop variable batch_idx
    batch_status,   \* local batch_status
    sqp_result,     \* local result: status, completed_batches, failed_batches, error
    pulled,         \* history: batch indices handed to pull_sqp_batch / pull_scp_batch
                    \* by the running / last pull_for_marketplace
    sqp_runs,       \* history: number of pull_for_marketplace calls started
    \* ---- gap detection for one marketplace (detect_gaps.py) ----
    api_pulls,      \* the sp_api_pulls row of the marketplace for each date (a day number)
    lookback_days,  \* argument lookback_days of the last detect_gaps call
    end_date,       \* argument end_date of the last detect_gaps call
    gaps,           \* the list the last detect_gaps call returned
    detected,       \* whether detect_gaps has been called
    \* ---- polling of one report (reports.py, sqp_reports.py) ----
    ppc,            \* where poll_report_status is: "idle", or "request" before a status request
    max_wait_seconds, \* argument max_wait_seconds of the call
    poll_interval,  \* argument poll_interval of the call
    poll_elapsed,   \* seconds since start_time
    status_log,     \* history: the processingStatus of every status request of the call
    poll_result,    \* what the call returned or raised, "none" until then
    \* ---- a RetryStrategy asked for backoff delays (api_client.py) ----
    rs_config,      \* base_delay and max_delay of the strategy, in tenths of a second
    rs_calls,       \* history: attempt and returned delay of its last two get_delay calls
    \* ---- repair of detected gaps (detect_gaps.py) ----
    fpc,            \* where repair_gaps is: "idle", "region", "gap" or "returned"
    gaps_arg,       \* argument gaps of the call: the combined gap list
    max_repairs,    \* argument max_repairs of the call
    dry_run,        \* argument dry_run of the call
    gaps_to_fix,    \* the gaps the call chose
    todo,           \* the chosen gaps still to visit, region group by region group
    summary,        \* the summary dict the call builds and returns
    repair_pulls,   \* history: the gaps pull_marketplace_data was called for
    \* ---- download of one report (reports.py, sqp_reports.py) ----
    dpc,            \* where download_report is: "idle" or "doc_info" (in client.get)
    doc_call,       \* the number of the client's request call that fetches the document info
    payload_log,    \* history: what the fetches of the payload were answered with
    report_data,    \* what download_report returned or raised, "none" until then
    \* ---- the SP-API requests of one report pull, by pull path ----
    pull_path,      \* the script that pulls the report, "none" when none does
    path_step,      \* the request the pull is at: create, poll or document
    path_retries,   \* retries made of the request the pull is at
    http_log,       \* history: route and outcome of every HTTP request of the pull
    \* ---- construction of an SPAPIClient (api_client.py) ----
    ctor_args,      \* the keyword arguments of the last SPAPIClient(...) call, NoArg = not passed
    ctor_env,       \* what the environment variables (or their literals) give for each parameter
    new_client,     \* the tuning attributes of the client built and of its RetryStrategy
    \* ---- ASINs that fail in SQP/SCP pulls of one marketplace (db.py, pull_sqp.py) ----
    asin_errors,    \* the sp_sqp_asin_errors row of each ASIN
    streak,         \* history: failed pulls of each ASIN since its last successful pull
    \* ---- resumed SQP/SCP pulls of one period over a changing ASIN list (pull_sqp.py, sqp_reports.py) ----
    bpc,            \* where pull_for_marketplace is: idle or loop
    b_row,          \* the sp_sqp_pulls row of the period
    b_asins,        \* local asins: the sorted active ASINs of the running / last pull
    b_batch_status, \* local batch_status
    b_idx,          \* loop variable batch_idx
    b_result,       \* local result: status and the two batch counters
    b_skipped,      \* history: batch indices the running / last pull skipped as completed
    b_with,         \* history: the ASINs pulled when each index was persisted as completed
    b_covered,      \* history: the ASINs pulled and upserted for the period by any run
    b_runs,         \* history: number of pulls started
    \* ---- sp_daily_asin_data of one (marketplace, date), written by two processes (db.py) ----
    daily_data,     \* data_source of the row of each ASIN, none when there is no row
    upc,            \* where upsert_orders_asin_data is: idle, or upsert before a chunk
    st_asins,       \* local st_asins of upsert_orders_asin_data
    filtered_rows,  \* local filtered_rows still to upsert, by child_asin
    st_written      \* history: the ASINs upsert_asin_data wrote a sales_traffic row for

clientVars == <<since_request, current_limits, stats, cpc, api_type, attempt,
                result, log, backoff, since_sent, gap, floor, prevCall, calls,
                limit_header, raised>>

trackerVars == <<ckpt, pulls, imports, rows, totals, tracker, rpc, resume,
                 skip_existing, marketplaces, idx, asin_count, error_msg, results, runs,
                 alerts, http_retries, report_date, exit_code>>

sqpVars == <<sqp_pull, spc, sqp_resume, sqp_force, existing, total_batches,
             batch_idx, batch_status, sqp_result, pulled, sqp_runs>>

gapVars == <<api_pulls, lookback_days, end_date, gaps, detected>>

pollVars == <<ppc, max_wait_seconds, poll_interval, poll_elapsed, status_log, poll_result>>

delayVars == <<rs_config, rs_calls>>

downloadVars == <<dpc, doc_call, payload_log, report_data>>

pathVars == <<pull_path, path_step, path_retries, http_log>>

repairVars == <<fpc, gaps_arg, max_repairs, dry_run, gaps_to_fix, todo, summary,
                repair_pulls>>

ctorVars == <<ctor_args, ctor_env, new_client>>

asinVars == <<asin_errors, streak>>

rebatchVars == <<bpc, b_row, b_asins, b_batch_status, b_idx, b_result, b_skipped, b_with, b_covered, b_runs>>

upsertVars == <<daily_data, upc, st_asins, filtered_rows, st_written>>

\* what each subsystem leaves alone
notClient == <<trackerVars, sqpVars, gapVars, pollVars, delayVars, downloadVars,
    pathVars, repairVars, ctorVars, asinVars, rebatchVars, upsertVars>>
notTracker == <<clientVars, sqpVars, gapVars, pollVars, delayVars, downloadVars,
    pathVars, repairVars, ctorVars, asinVars, rebatchVars, upsertVars>>
notSqp == <<clientVars, trackerVars, gapVars, pollVars, delayVars, downloadVars,
    pathVars, repairVars, ctorVars, asinVars, rebatchVars, upsertVars>>
notGaps == <<clientVars, trackerVars, sqpVars, pollVars, delayVars, downloadVars,
    pathVars, repairVars, ctorVars, asinVars, rebatchVars, upsertVars>>
notPoll == <<clientVars, trackerVars, sqpVars, gapVars, delayVars, downloadVars,
    pathVars, repairVars, ctorVars, asinVars, rebatchVars, upsertVars>>
notDelay == <<clientVars, trackerVars, sqpVars, gapVars, pollVars, downloadVars,
    pathVars, repairVars, ctorVars, asinVars, rebatchVars, upsertVars>>
notDownload == <<clientVars, trackerVars, sqpVars, gapVars, pollVars, delayVars,
    pathVars, repairVars, ctorVars, asinVars, rebatchVars, upsertVars>>
notPath == <<clientVars, trackerVars, sqpVars, gapVars, pollVars, delayVars,
    downloadVars, repairVars, ctorVars, asinVars, rebatchVars, upsertVars>>
notRepair == <<clientVars, trackerVars, sqpVars, gapVars, pollVars, delayVars,
    downloadVars, pathVars, ctorVars, asinVars, rebatchVars, upsertVars>>
notCtor == <<clientVars, trackerVars, sqpVars, gapVars, pollVars, delayVars,
    downloadVars, pathVars, repairVars, asinVars, rebatchVars, upsertVars>>
notAsin == <<clientVars, trackerVars, sqpVars, gapVars, pollVars, delayVars,
    downloadVars, pathVars, repairVars, ctorVars, rebatchVars, upsertVars>>
notRebatch == <<clientVars, trackerVars, sqpVars, gapVars, pollVars, delayVars,
    downloadVars, pathVars, repairVars, ctorVars, asinVars, upsertVars>>
notUpsert == <<clientVars, trackerVars, sqpVars, gapVars, pollVars, delayVars,
    downloadVars, pathVars, repairVars, ctorVars, asinVars, rebatchVars>>

----------------------------------------------------------------------------
(* Bounds of the model *)
MaxRuns == 2          \* pull_region_data runs on one checkpoint key
MaxRows == 1          \* rows of a report that holds rows
MaxSqpRuns == 2       \* pull_for_marketplace runs on one (marketplace, report type, period)
MaxBatches == 5       \* batches batch_asins makes of the active ASINs
MaxDate == 3          \* dates are the day numbers 0 .. MaxDate
MaxWait == 3          \* largest max_wait_seconds given to poll_report_status
MaxInterval == 2      \* largest poll_interval given to poll_report_status
MaxLatency == 2       \* longest a status request takes, in seconds
MaxAttempt == 4       \* largest attempt number get_delay is asked about
MaxGapDate == 1       \* the gaps handed to repair_gaps have the dates 0 .. MaxGapDate
MaxRepairs == 2       \* largest --max-repairs given
MaxCalls == 2         \* request calls made on one client
MaxArg == 2           \* largest value a caller passes for a tuning parameter
MaxAsins == 3         \* child ASINs in the marketplace's recent sales data
ChunkSize == 2        \* chunk_size of upsert_orders_asin_data, scaled down from 500
CharLimit == 21       \* char_limit of batch_asins, scaled down from 200: two ASINs a batch
max_retries == 2      \* SPAPIClient(max_retries=...), the client's retry budget
base_delay == 1       \* SPAPIClient(base_delay=...), in ticks
max_delay == 2        \* SPAPIClient(max_delay=...), in ticks

SecondsToTicks(s) == s * 2

\* elapsed times are told apart up to the longest minimum interval (1 req/s)
Horizon == SecondsToTicks(1)

Min(a, b) == IF a < b THEN a ELSE b

\* an elapsed time a, d ticks later
Age(a, d) == Min(Horizon, a + d)

RECURSIVE Pow2(_)
Pow2(n) == IF n = 0 THEN 1 ELSE 2 * Pow2(n - 1)

----------------------------------------------------------------------------
(* RateLimitHandler *)

ApiTypes == {"reports_get", "default"}

\* DEFAULT_LIMITS, requests per second, for the api types the model uses
DEFAULT_LIMITS(t) == IF t = "reports_get" THEN 2 ELSE 1

\* the values a response can carry in x-amzn-RateLimit-Limit ("" = header absent)
LimitHeaders == {"", "0", "-1", "2", "abc"}
\* the values a response can carry in Retry-After ("" = header absent)
RetryAfterHeaders == {"", "1", "soon"}

\* float(s): the strings of the model that parse, and their value
Parses(s) == s \in {"0", "-1", "1", "2"}
FloatOf(s) == CASE s = "0" -> 0 [] s = "-1" -> -1 [] s = "1" -> 1 [] s = "2" -> 2
              [] OTHER -> 0

\* get_min_interval: 1.0 / limit, in ticks
get_min_interval(limits, t) ==
    LET limit == IF limits[t] # 0 THEN limits[t] ELSE DEFAULT_LIMITS(t)
    IN  IF limit > 0 THEN SecondsToTicks(1) \div limit ELSE SecondsToTicks(1)

\* wait_if_needed: the ticks the call sleeps before it sends
wait_if_needed(t) ==
    LET min_interval == get_min_interval(current_limits, t)
        elapsed == since_request[t]
    IN  IF elapsed < min_interval THEN min_interval - elapsed ELSE 0

\* record_request: last_request_time[t] = time.time()
record_request(since, t) == [since EXCEPT ![t] = 0]

\* update_from_response without the limit > 0 test
update_from_response_any_number(limits, t, hdr) ==
    IF hdr # "" /\ Parses(hdr)
    THEN [limits EXCEPT ![t] = FloatOf(hdr)]
    ELSE limits

\* update_from_response
update_from_response(limits, t, hdr) ==
    IF hdr # "" /\ Parses(hdr) /\ FloatOf(hdr) > 0
    THEN [limits EXCEPT ![t] = FloatOf(hdr)]
    ELSE limits

\* d ticks pass
Later(since, d) == [t \in ApiTypes |-> Age(since[t], d)]

----------------------------------------------------------------------------
(* RetryStrategy *)

\* the transient set with 403 added
TRANSIENT_STATUS_CODES_and_403 == {403, 429, 500, 502, 503, 504}

TRANSIENT_STATUS_CODES == {429, 500, 502, 503, 504}
TRANSIENT_EXCEPTIONS == {"ConnectionError", "Timeout"}

\* what the transport can answer to one attempt: a status code (a success, a
\* 4xx, the rate-limit status, a 5xx of TRANSIENT_STATUS_CODES and one outside
\* it) or an exception
Statuses == {200, 403, 429, 500, 501}
Outcomes == [kind : {"status"}, code : Statuses]
            \cup [kind : TRANSIENT_EXCEPTIONS, code : {0}]

IsException(o) == o.kind \in TRANSIENT_EXCEPTIONS
IsTransient(o) == IsException(o) \/ o.code \in TRANSIENT_STATUS_CODES

\* should_retry with the budget test off by one
should_retry_one_more(o, att) ==
    IF att > max_retries THEN FALSE
    ELSE IF IsException(o) THEN TRUE
    ELSE IF o.kind = "status" /\ o.code \in TRANSIENT_STATUS_CODES THEN TRUE
    ELSE FALSE

\* should_retry without the transient-exception test
should_retry_status_only(o, att) ==
    IF att >= max_retries THEN FALSE
    ELSE IF o.kind = "status" /\ o.code \in TRANSIENT_STATUS_CODES THEN TRUE
    ELSE FALSE

should_retry(o, att) ==
    IF att >= max_retries THEN FALSE
    ELSE IF IsException(o) THEN TRUE
    ELSE IF o.kind = "status" /\ o.code \in TRANSIENT_STATUS_CODES THEN TRUE
    ELSE FALSE

\* the backoff with a jitter of up to half the delay
get_delay_backoff_half_jitter(att, base, max) ==
    LET delay == Min(base * Pow2(att), max)
    IN  {delay + jitter : jitter \in 0..(delay \div 2)}

\* get_delay past the Retry-After test, for a strategy of base_delay base and
\* max_delay max: the delays the call can draw, in the unit of base and max
\* (the jitter is uniform in [0, delay * 0.1])
get_delay_backoff(att, base, max) ==
    LET delay == Min(base * Pow2(att), max)
    IN  {delay + jitter : jitter \in 0..(delay \div 10)}

\* get_delay that never reads the header
get_delay_in_backoff_only(att, retry_after, base, max, unit) ==
    get_delay_backoff(att, base, max)

\* get_delay for a strategy of base_delay base and max_delay max given in units
\* of 1/unit second: the delays the call can draw; retry_after is "" when there
\* is no response or no header
get_delay_in(att, retry_after, base, max, unit) ==
    IF retry_after # "" /\ Parses(retry_after)
    THEN {unit * FloatOf(retry_after)}
    ELSE get_delay_backoff(att, base, max)

\* get_delay of the client's strategy, in ticks
get_delay(att, retry_after) ==
    get_delay_in(att, retry_after, base_delay, max_delay, SecondsToTicks(1))

\* the strategies asked: the defaults (1.0 s, 60.0 s) and SP_API_MAX_DELAY = 6,
\* in tenths of a second
RetryConfigs == {[base |-> 10, max |-> 600], [base |-> 10, max |-> 60]}

\* RetryStrategy(...): a new strategy
NewStrategy(cfg) ==
    /\ rs_config' = cfg
    /\ rs_calls' = <<>>
    /\ UNCHANGED notDelay

\* the values of Retry-After the strategy is asked with ("" = no response or no
\* header)
DelayHeaders == {"", "0", "2", "soon"}

\* tenths of a second in a second
Tenths == 10

\* get_delay(attempt, response)
GetDelay(att, retry_after) ==
    /\ \E delay \in get_delay_in(att, retry_after, rs_config.base, rs_config.max, Tenths) :
           LET call == [attempt |-> att, retry_after |-> retry_after, delay |-> delay]
           IN  rs_calls' = IF Len(rs_calls) = 2 THEN <<rs_calls[2], call>>
                           ELSE Append(rs_calls, call)
    /\ UNCHANGED rs_config
    /\ UNCHANGED notDelay

----------------------------------------------------------------------------
(* SPAPIClient.request *)

\* request(): the code before the loop
Request(t) ==
    /\ cpc = "idle"
    /\ calls < MaxCalls
    /\ calls' = calls + 1
    /\ cpc' = "loop"
    /\ api_type' = t
    /\ attempt' = 0
    /\ result' = "none"
    /\ log' = <<>>
    /\ backoff' = 0
    /\ prevCall' = IF calls = 0 THEN "none" ELSE api_type
    /\ UNCHANGED <<since_request, current_limits, stats, since_sent, gap, floor,
                   limit_header, raised>>
    /\ UNCHANGED notClient

\* the typed error without the 429 test
ErrorOf_no_rate_limit(o) ==
    IF o.code >= 500 THEN "SPAPITransientError"
    ELSE "SPAPIFatalError"

\* the typed error of a response that is not retried
ErrorOf(o) ==
    IF o.code = 429 THEN "SPAPIRateLimitError"
    ELSE IF o.code >= 500 THEN "SPAPITransientError"
    ELSE "SPAPIFatalError"

\* the try-branch after session.request returned a response; since and sent
\* are the elapsed times at that moment
OnResponse(o, since, sent, limitHdr, retryAfter) ==
    /\ current_limits' = update_from_response(current_limits, api_type, limitHdr)
    /\ IF o.code < 400
       THEN /\ cpc' = "idle"
            /\ result' = "response"
            /\ since_request' = record_request(since, api_type)
            /\ since_sent' = sent
            /\ stats' = [stats EXCEPT !.requests = @ + 1]
            /\ UNCHANGED <<attempt, backoff>>
       ELSE IF should_retry(o, attempt)
       THEN \E delay \in get_delay(attempt, retryAfter) :
            /\ stats' = [stats EXCEPT !.requests = @ + 1,
                                      !.retries = @ + 1,
                                      !.rate_limit_waits =
                                          IF o.code = 429 THEN @ + 1 ELSE @]
            /\ since_request' = Later(record_request(since, api_type), delay)
            /\ since_sent' = Later(sent, delay)
            /\ backoff' = backoff + delay
            /\ attempt' = attempt + 1
            /\ UNCHANGED <<cpc, result>>
       ELSE /\ stats' = [stats EXCEPT !.requests = @ + 1, !.errors = @ + 1]
            /\ cpc' = "idle"
            /\ result' = ErrorOf(o)
            /\ since_request' = record_request(since, api_type)
            /\ since_sent' = sent
            /\ UNCHANGED <<attempt, backoff>>

\* the except-branch with stats["requests"] += 1 placed after session.request,
\* where an attempt that raises is not counted
OnException_uncounted(o, since, sent) ==
    /\ IF should_retry(o, attempt)
       THEN \E delay \in get_delay(attempt, "") :
            /\ stats' = [stats EXCEPT !.retries = @ + 1]
            /\ since_request' = Later(since, delay)
            /\ since_sent' = Later(sent, delay)
            /\ backoff' = backoff + delay
            /\ attempt' = attempt + 1
            /\ UNCHANGED <<cpc, result>>
       ELSE /\ stats' = [stats EXCEPT !.errors = @ + 1]
            /\ cpc' = "idle"
            /\ result' = "SPAPITransientError"
            /\ since_request' = since
            /\ since_sent' = sent
            /\ UNCHANGED <<attempt, backoff>>
    /\ UNCHANGED current_limits

\* the except-branch: session.request raised a transient exception
OnException(o, since, sent) ==
    /\ IF should_retry(o, attempt)
       THEN \E delay \in get_delay(attempt, "") :
            /\ stats' = [stats EXCEPT !.requests = @ + 1, !.retries = @ + 1]
            /\ since_request' = Later(since, delay)
            /\ since_sent' = Later(sent, delay)
            /\ backoff' = backoff + delay
            /\ attempt' = attempt + 1
            /\ UNCHANGED <<cpc, result>>
       ELSE /\ stats' = [stats EXCEPT !.requests = @ + 1, !.errors = @ + 1]
            /\ cpc' = "idle"
            /\ result' = "SPAPITransientError"
            /\ since_request' = since
            /\ since_sent' = sent
            /\ UNCHANGED <<attempt, backoff>>
    /\ UNCHANGED current_limits

\* one iteration of the while True loop: rate-limit wait, one HTTP attempt
\* that takes latency ticks, then return, raise, or back off and go round again
Iterate(o, latency, limitHdr, retryAfter) ==
    /\ cpc = "loop"
    /\ LET wait == wait_if_needed(api_type)
           since == Later(since_request, wait + latency)
           sent == Later([Later(since_sent, wait) EXCEPT ![api_type] = 0], latency)
       IN  /\ gap' = Age(since_sent[api_type], wait)
           /\ floor' = get_min_interval(current_limits, api_type)
           /\ log' = Append(log, o)
           /\ IF IsException(o)
              THEN OnException(o, since, sent) /\ UNCHANGED limit_header
              ELSE OnResponse(o, since, sent, limitHdr, retryAfter)
                   /\ limit_header' = limitHdr
           /\ raised' = IF cpc' = "idle" /\ result' # "response"
                        THEN raised + 1 ELSE raised
    /\ UNCHANGED <<api_type, prevCall, calls>>
    /\ UNCHANGED notClient

\* time passing while no call is running
Elapse ==
    /\ cpc = "idle"
    /\ since_request' = Later(since_request, 1)
    /\ since_sent' = Later(since_sent, 1)
    /\ <<since_request', since_sent'>> # <<since_request, since_sent>>
    /\ UNCHANGED <<current_limits, stats, cpc, api_type, attempt, result, log,
                   backoff, gap, floor, prevCall, calls, limit_header, raised>>
    /\ UNCHANGED notClient

----------------------------------------------------------------------------
(* PullTracker (pull_tracker.py) *)

\* MARKETPLACES_BY_REGION["NA"], the units of the modelled region
ALL_MARKETPLACES == <<"USA", "CA", "MX">>
Units == {ALL_MARKETPLACES[i] : i \in 1..Len(ALL_MARKETPLACES)}

\* marketplace_status.get(mp, {}): an entry without keys
NoEntry == [status |-> "absent", retries |-> 0, row_count |-> 0, error |-> ""]
EmptyStatus == [m \in Units |-> NoEntry]

\* PullTracker.__init__
NewTracker == [pull_id |-> FALSE, marketplace_status |-> EmptyStatus,
               last_completed |-> "", error_count |-> 0, last_error |-> "",
               total_row_count |-> 0]

\* _update_status that leaves the persisted unit status map alone
update_status_without_map(c, t, st) ==
    IF ~t.pull_id THEN c
    ELSE [c EXCEPT !.status = st,
                   !.last_completed = t.last_completed,
                   !.error_count = t.error_count,
                   !.last_error = t.last_error,
                   !.total_row_count = t.total_row_count,
                   !.completed_at = IF st = "completed" THEN TRUE ELSE @]

\* _update_status: the row after the tracker t wrote status st
update_status(c, t, st) ==
    IF ~t.pull_id THEN c
    ELSE [c EXCEPT !.status = st,
                   !.marketplace_status = t.marketplace_status,
                   !.last_completed = t.last_completed,
                   !.error_count = t.error_count,
                   !.last_error = t.last_error,
                   !.total_row_count = t.total_row_count,
                   !.completed_at = IF st = "completed" THEN TRUE ELSE @]

\* the resumable statuses without in_progress
RESUMABLE_partial_only == {"partial"}

\* the statuses of an existing checkpoint that start_pull resumes
RESUMABLE == {"in_progress", "partial"}

\* start_pull: the tracker and the row after it
start_pull_tracker(c, res) ==
    IF res /\ c.exists /\ c.status \in RESUMABLE
    THEN [NewTracker EXCEPT !.pull_id = TRUE,
                            !.marketplace_status = c.marketplace_status,
                            !.last_completed = c.last_completed,
                            !.error_count = c.error_count]
    ELSE [NewTracker EXCEPT !.pull_id = TRUE]

\* start_pull whose upsert leaves the stored status map as it is
start_pull_row_keep_map(c, res) ==
    IF res /\ c.exists /\ c.status \in RESUMABLE
    THEN update_status(c, start_pull_tracker(c, res), "in_progress")
    ELSE [c EXCEPT !.exists = TRUE,
                   !.status = "in_progress",
                   !.last_completed = "",
                   !.error_count = 0]

start_pull_row(c, res) ==
    IF res /\ c.exists /\ c.status \in RESUMABLE
    THEN update_status(c, start_pull_tracker(c, res), "in_progress")
    ELSE [c EXCEPT !.exists = TRUE,
                   !.status = "in_progress",
                   !.marketplace_status = EmptyStatus,
                   !.last_completed = "",
                   !.error_count = 0]

\* start_marketplace
start_marketplace(t, m) ==
    [t EXCEPT !.marketplace_status[m] =
        [NoEntry EXCEPT !.status = "in_progress",
                        !.retries = t.marketplace_status[m].retries]]

\* complete_marketplace
complete_marketplace(t, m, row_count) ==
    [t EXCEPT !.marketplace_status[m] =
                  [NoEntry EXCEPT !.status = "completed", !.row_count = row_count],
              !.total_row_count = @ + row_count,
              !.last_completed = m]

\* fail_marketplace (increment_retry = True)
fail_marketplace(t, m, error) ==
    [t EXCEPT !.marketplace_status[m] =
                  [NoEntry EXCEPT !.status = "failed",
                                  !.error = error,
                                  !.retries = t.marketplace_status[m].retries + 1],
              !.error_count = @ + 1,
              !.last_error = m]

\* get_incomplete_marketplaces without the status test
get_incomplete_marketplaces_all(t, all) == all

\* get_incomplete_marketplaces
get_incomplete_marketplaces(t, all) ==
    SelectSeq(all, LAMBDA m : t.marketplace_status[m].status # "completed")

\* finish_pull that calls a pull completed as soon as one entry is completed
finish_status_any_completed(t) ==
    IF \E m \in Units : t.marketplace_status[m].status = "completed" THEN "completed"
    ELSE "failed"

\* finish_pull: the final status
finish_status(t) ==
    LET statuses == {m \in Units : t.marketplace_status[m].status # "absent"}
        completed_count ==
            Cardinality({m \in statuses : t.marketplace_status[m].status = "completed"})
        total == Cardinality(statuses)
    IN  IF completed_count = total /\ total > 0 THEN "completed"
        ELSE IF completed_count > 0 THEN "partial"
        ELSE "failed"

----------------------------------------------------------------------------
(* pull_region_data and pull_marketplace_data (pull_daily_sales.py) *)

\* the marketplace the loop is at
unit == marketplaces[idx]

\* no process runs: none was started, the last returned or was killed ("idle"),
\* or it ended in an uncaught exception ("raised")
Stopped == {"idle", "raised"}

\* the values main passes as report_date: a date given with --date, or None
ReportDates == {"date", "None"}

\* the row counts the runs draw for a report: no rows, or MaxRows rows
AsinCounts == {0, MaxRows}

\* the exit status of a process that did not run to the end of main
NoExit == -1

\* the end of main: sys.exit(1) if any result failed, else a normal exit
main_exit(res) ==
    IF \E i \in 1..Len(res) : res[i].status = "failed" THEN 1 ELSE 0

\* what can happen to a post to the Slack webhook: none is configured, the
\* post is answered 200 or otherwise, or requests.post raises
Deliveries == {"no_webhook", "200", "500", "exception"}

\* _send_slack without the try / except around the post
send_slack_uncaught(dl) ==
    IF dl = "no_webhook" THEN "False"
    ELSE IF dl = "exception" THEN "raises"
    ELSE IF dl = "200" THEN "True"
    ELSE "False"

\* _send_slack: what the call returns ("raises" if it raised)
send_slack(dl) ==
    IF dl = "no_webhook" THEN "False"
    ELSE IF dl = "exception" THEN "False"
    ELSE IF dl = "200" THEN "True"
    ELSE "False"

\* the record of a payload handed to _send_slack, of what happened to the post
\* and of what the call returned
posted(payload, dl) == [delivery |-> dl, sent |-> send_slack(dl)] @@ payload

\* the payload alert_failure hands to _send_slack
alert_failure(m, error) ==
    [kind |-> "failure", marketplace |-> m, error |-> error,
     completed |-> <<>>, failed |-> <<>>]

\* [r["marketplace"] for r in results if r["status"] == st]
marketplaces_with(res, st) ==
    LET picked == SelectSeq(res, LAMBDA r : r.status = st)
    IN  [i \in 1..Len(picked) |-> picked[i].marketplace]

\* the end of pull_region_data, for a run called with a report_date: alert_partial
\* when a unit failed, else send_summary, which posts unless all_success
summary_alerts(res) ==
    LET completed == marketplaces_with(res, "completed")
        failed == marketplaces_with(res, "failed")
    IN  IF failed # <<>>
        THEN <<[kind |-> "partial", marketplace |-> "", error |-> "",
                completed |-> completed, failed |-> failed]>>
        ELSE IF ~(failed = <<>> /\ completed # <<>>)
        THEN <<[kind |-> "summary", marketplace |-> "", error |-> "",
                completed |-> completed, failed |-> failed]>>
        ELSE <<>>

\* pull_region_data up to the loop: start_pull and the choice of the units
RunStart(res, skip, rd) ==
    /\ rpc \in Stopped
    /\ runs < MaxRuns
    /\ runs' = runs + 1
    /\ resume' = res
    /\ skip_existing' = skip
    /\ tracker' = start_pull_tracker(ckpt, res)
    /\ ckpt' = start_pull_row(ckpt, res)
    /\ marketplaces' = IF res
                       THEN get_incomplete_marketplaces(tracker', ALL_MARKETPLACES)
                       ELSE ALL_MARKETPLACES
    /\ idx' = 0
    /\ results' = <<>>
    /\ asin_count' = 0
    /\ error_msg' = ""
    /\ rpc' = "loop"
    /\ UNCHANGED <<pulls, imports, rows, totals>>
    /\ alerts' = <<>>
    /\ http_retries' = [m \in Units |-> 0]
    /\ report_date' = rd
    /\ exit_code' = NoExit
    /\ UNCHANGED notTracker

\* the loop takes up the next unit: pull_marketplace_data starts with
\* tracker.start_marketplace
StartUnit ==
    /\ rpc = "loop"
    /\ idx < Len(marketplaces)
    /\ idx' = idx + 1
    /\ tracker' = start_marketplace(tracker, marketplaces[idx + 1])
    /\ ckpt' = update_status(ckpt, tracker', "in_progress")
    /\ asin_count' = 0
    /\ error_msg' = ""
    /\ rpc' = "check"
    /\ UNCHANGED <<pulls, imports, rows, totals, resume, skip_existing,
                   marketplaces, results, runs>>
    /\ UNCHANGED <<alerts, http_retries>>
    /\ UNCHANGED <<report_date, exit_code>>
    /\ UNCHANGED notTracker

\* the skip_existing test: a completed pull with rows is not pulled again
CheckExisting ==
    /\ rpc = "check"
    /\ IF /\ skip_existing
          /\ pulls[unit].status = "completed"
          /\ pulls[unit].asin_count > 0
       THEN /\ tracker' = complete_marketplace(tracker, unit, pulls[unit].asin_count)
            /\ ckpt' = update_status(ckpt, tracker', "in_progress")
            /\ results' = Append(results, [marketplace |-> unit, status |-> "skipped"])
            /\ rpc' = "loop"
       ELSE /\ rpc' = "create_import"
            /\ UNCHANGED <<tracker, ckpt, results>>
    /\ UNCHANGED <<pulls, imports, rows, totals, resume, skip_existing,
                   marketplaces, idx, asin_count, error_msg, runs>>
    /\ UNCHANGED <<alerts, http_retries>>
    /\ UNCHANGED <<report_date, exit_code>>
    /\ UNCHANGED notTracker

\* create_data_import
CreateImport ==
    /\ rpc = "create_import"
    /\ imports' = [imports EXCEPT ![unit] = "processing"]
    /\ rpc' = "create_pull"
    /\ UNCHANGED <<ckpt, pulls, rows, totals, tracker, resume, skip_existing,
                   marketplaces, idx, asin_count, error_msg, results, runs>>
    /\ UNCHANGED <<alerts, http_retries>>
    /\ UNCHANGED <<report_date, exit_code>>
    /\ UNCHANGED notTracker

\* create_pull_record
CreatePull ==
    /\ rpc = "create_pull"
    /\ pulls' = [pulls EXCEPT ![unit] = [status |-> "pending", asin_count |-> 0]]
    /\ rpc' = "processing"
    /\ UNCHANGED <<ckpt, imports, rows, totals, tracker, resume, skip_existing,
                   marketplaces, idx, asin_count, error_msg, results, runs>>
    /\ UNCHANGED <<alerts, http_retries>>
    /\ UNCHANGED <<report_date, exit_code>>
    /\ UNCHANGED notTracker

\* update_pull_status(pull_id, "processing")
MarkProcessing ==
    /\ rpc = "processing"
    /\ pulls' = [pulls EXCEPT ![unit].status = "processing"]
    /\ rpc' = "report"
    /\ UNCHANGED <<ckpt, imports, rows, totals, tracker, resume, skip_existing,
                   marketplaces, idx, asin_count, error_msg, results, runs>>
    /\ UNCHANGED <<alerts, http_retries>>
    /\ UNCHANGED <<report_date, exit_code>>
    /\ UNCHANGED notTracker

\* PullReport with tracker.complete_marketplace moved ahead of the data writes
PullReport_checkpoint_first(n, k) ==
    /\ rpc = "report"
    /\ asin_count' = n
    /\ tracker' = complete_marketplace(tracker, unit, n)
    /\ ckpt' = update_status(ckpt, tracker', "in_progress")
    /\ rpc' = "upsert_asin"
    /\ UNCHANGED <<pulls, imports, rows, totals, resume,
                   skip_existing, marketplaces, idx, error_msg, results, runs>>
    /\ http_retries' = [http_retries EXCEPT ![unit] = k]
    /\ UNCHANGED alerts
    /\ UNCHANGED <<report_date, exit_code>>
    /\ UNCHANGED notTracker

\* pull_single_day_report: returns a report of n rows after the client retried
\* k <= max_retries times (the runs draw k from none and all of the budget), or raises
PullReport(n, k) ==
    /\ rpc = "report"
    /\ asin_count' = n
    /\ rpc' = "upsert_asin"
    /\ UNCHANGED <<ckpt, pulls, imports, rows, totals, tracker, resume,
                   skip_existing, marketplaces, idx, error_msg, results, runs>>
    /\ http_retries' = [http_retries EXCEPT ![unit] = k]
    /\ UNCHANGED alerts
    /\ UNCHANGED <<report_date, exit_code>>
    /\ UNCHANGED notTracker

\* pull_single_day_report raises: SPAPIError from the client, or another
\* exception (report FATAL / CANCELLED, poll timeout, download error)
PullReportFails(e) ==
    /\ rpc = "report"
    /\ error_msg' = e
    /\ rpc' = "fail_tracker"
    /\ UNCHANGED <<ckpt, pulls, imports, rows, totals, tracker, resume,
                   skip_existing, marketplaces, idx, asin_count, results, runs>>
    /\ http_retries' = [http_retries EXCEPT ![unit] = IF e = "SPAPIError" THEN max_retries ELSE 0]
    /\ UNCHANGED alerts
    /\ UNCHANGED <<report_date, exit_code>>
    /\ UNCHANGED notTracker

\* upsert_asin_data
UpsertAsin ==
    /\ rpc = "upsert_asin"
    /\ rows' = [rows EXCEPT ![unit] = TRUE]
    /\ rpc' = "upsert_totals"
    /\ UNCHANGED <<ckpt, pulls, imports, totals, tracker, resume, skip_existing,
                   marketplaces, idx, asin_count, error_msg, results, runs>>
    /\ UNCHANGED <<alerts, http_retries>>
    /\ UNCHANGED <<report_date, exit_code>>
    /\ UNCHANGED notTracker

\* upsert_totals
UpsertTotals ==
    /\ rpc = "upsert_totals"
    /\ totals' = [totals EXCEPT ![unit] = TRUE]
    /\ rpc' = "pull_done"
    /\ UNCHANGED <<ckpt, pulls, imports, rows, tracker, resume, skip_existing,
                   marketplaces, idx, asin_count, error_msg, results, runs>>
    /\ UNCHANGED <<alerts, http_retries>>
    /\ UNCHANGED <<report_date, exit_code>>
    /\ UNCHANGED notTracker

\* update_pull_status(pull_id, "completed", asin_count=...)
MarkPullCompleted ==
    /\ rpc = "pull_done"
    /\ pulls' = [pulls EXCEPT ![unit] = [status |-> "completed", asin_count |-> asin_count]]
    /\ rpc' = "import_done"
    /\ UNCHANGED <<ckpt, imports, rows, totals, tracker, resume, skip_existing,
                   marketplaces, idx, asin_count, error_msg, results, runs>>
    /\ UNCHANGED <<alerts, http_retries>>
    /\ UNCHANGED <<report_date, exit_code>>
    /\ UNCHANGED notTracker

\* update_data_import(import_id, "completed", ...)
MarkImportCompleted ==
    /\ rpc = "import_done"
    /\ imports' = [imports EXCEPT ![unit] = "completed"]
    /\ rpc' = "complete"
    /\ UNCHANGED <<ckpt, pulls, rows, totals, tracker, resume, skip_existing,
                   marketplaces, idx, asin_count, error_msg, results, runs>>
    /\ UNCHANGED <<alerts, http_retries>>
    /\ UNCHANGED <<report_date, exit_code>>
    /\ UNCHANGED notTracker

\* tracker.complete_marketplace at the end of the try block
CompleteUnit ==
    /\ rpc = "complete"
    /\ tracker' = complete_marketplace(tracker, unit, asin_count)
    /\ ckpt' = update_status(ckpt, tracker', "in_progress")
    /\ results' = Append(results, [marketplace |-> unit, status |-> "completed"])
    /\ rpc' = "loop"
    /\ UNCHANGED <<pulls, imports, rows, totals, resume, skip_existing,
                   marketplaces, idx, asin_count, error_msg, runs>>
    /\ UNCHANGED <<alerts, http_retries>>
    /\ UNCHANGED <<report_date, exit_code>>
    /\ UNCHANGED notTracker

\* the except blocks: tracker.fail_marketplace
FailUnit(dl) ==
    /\ rpc = "fail_tracker"
    /\ alerts' = Append(alerts, posted(alert_failure(unit, error_msg), dl))
    /\ IF send_slack(dl) = "raises"
       THEN \* the exception leaves the except block, the loop and main
            /\ rpc' = "raised"
            /\ exit_code' = 1
            /\ UNCHANGED <<tracker, ckpt>>
       ELSE /\ tracker' = fail_marketplace(tracker, unit, error_msg)
            /\ ckpt' = update_status(ckpt, tracker', "partial")
            /\ rpc' = "fail_records"
            /\ UNCHANGED exit_code
    /\ UNCHANGED <<pulls, imports, rows, totals, resume, skip_existing,
                   marketplaces, idx, asin_count, error_msg, results, runs>>
    /\ UNCHANGED http_retries
    /\ UNCHANGED report_date
    /\ UNCHANGED notTracker

\* the except blocks: update_pull_status and update_data_import to failed
MarkFailed ==
    /\ rpc = "fail_records"
    /\ pulls' = [pulls EXCEPT ![unit].status = "failed"]
    /\ imports' = [imports EXCEPT ![unit] = "failed"]
    /\ results' = Append(results, [marketplace |-> unit, status |-> "failed"])
    /\ rpc' = "loop"
    /\ UNCHANGED <<ckpt, rows, totals, tracker, resume, skip_existing,
                   marketplaces, idx, asin_count, error_msg, runs>>
    /\ UNCHANGED <<alerts, http_retries>>
    /\ UNCHANGED <<report_date, exit_code>>
    /\ UNCHANGED notTracker

\* after the loop: tracker.finish_pull, then the summary / alert step, which
\* evaluates report_date.isoformat() and so raises AttributeError out of
\* pull_region_data and main when report_date is None; else the return to main
\* and main's exit
FinishRun(dl) ==
    /\ rpc = "loop"
    /\ idx = Len(marketplaces)
    /\ ckpt' = update_status(ckpt, tracker, finish_status(tracker))
    /\ IF report_date = "None"
       THEN /\ rpc' = "raised"
            /\ exit_code' = 1
            /\ UNCHANGED alerts
       ELSE /\ alerts' = alerts \o [i \in 1..Len(summary_alerts(results)) |->
                                       posted(summary_alerts(results)[i], dl)]
            /\ IF summary_alerts(results) # <<>> /\ send_slack(dl) = "raises"
               THEN /\ rpc' = "raised"
                    /\ exit_code' = 1
               ELSE /\ rpc' = "idle"
                    /\ exit_code' = main_exit(results)
    /\ UNCHANGED <<pulls, imports, rows, totals, tracker, resume, skip_existing,
                   marketplaces, idx, asin_count, error_msg, results, runs>>
    /\ UNCHANGED http_retries
    /\ UNCHANGED report_date
    /\ UNCHANGED notTracker

\* the process is killed: what it held in memory is gone
Kill ==
    /\ rpc \notin Stopped
    /\ rpc' = "idle"
    /\ tracker' = NewTracker
    /\ marketplaces' = <<>>
    /\ idx' = 0
    /\ asin_count' = 0
    /\ error_msg' = ""
    /\ results' = <<>>
    /\ UNCHANGED <<ckpt, pulls, imports, rows, totals, resume, skip_existing, runs>>
    /\ http_retries' = [m \in Units |-> 0]
    /\ UNCHANGED alerts
    /\ UNCHANGED <<report_date, exit_code>>
    /\ UNCHANGED notTracker

----------------------------------------------------------------------------
(* SQP/SCP batch-level resume: pull_for_marketplace (pull_sqp.py 76-286) *)

BatchKeys == 0 .. (MaxBatches - 1)

\* batch_status = {}; "none" stands for a key the dict does not hold
EmptyBatchStatus == [i \in BatchKeys |-> "none"]

\* get_existing_sqp_pull returning None
NoSqpPull == [exists |-> FALSE, status |-> "none", total_batches |-> 0,
              completed_batches |-> 0, failed_batches |-> 0,
              batch_status |-> EmptyBatchStatus]

\* result = {"status": "pending", "completed_batches": 0, "failed_batches": 0, "error": None}
NewResult == [status |-> "pending", completed_batches |-> 0, failed_batches |-> 0,
              error |-> FALSE]

\* create_sqp_pull_record: the upserted row
create_sqp_pull_record(n) ==
    [exists |-> TRUE, status |-> "processing", total_batches |-> n,
     completed_batches |-> 0, failed_batches |-> 0, batch_status |-> EmptyBatchStatus]

\* a resume that adopts nothing
existing_batch_status_none(ex, res, frc) == EmptyBatchStatus

\* existing_batch_status: existing["batch_status"] if existing and resume and not force
\* and the map is not empty, else {}
existing_batch_status(ex, res, frc) ==
    IF ex.exists /\ res /\ ~frc /\ ex.batch_status # EmptyBatchStatus
    THEN ex.batch_status
    ELSE EmptyBatchStatus

\* final status of a run whose loop ended
final_status(r) ==
    IF r.failed_batches = 0 THEN "completed"
    ELSE IF r.completed_batches > 0 THEN "partial"
    ELSE "failed"

\* what pull_sqp_batch / pull_scp_batch can do: return its rows (none included) or
\* raise; the rows upsert_sqp_data / upsert_scp_data stores are not part of the state
BatchOutcomes == {"rows", "RuntimeError", "SPAPIError", "TimeoutError"}

\* the number of batches batch_asins makes of the active ASINs of the marketplace:
\* none when there is no active ASIN
BatchCounts == {0, MaxBatches}

\* pull_for_marketplace up to create_sqp_pull_record: n is len(batches)
SqpStart(res, frc, dry, n) ==
    /\ spc = "idle"
    /\ sqp_runs < MaxSqpRuns
    /\ sqp_runs' = sqp_runs + 1
    /\ sqp_resume' = res
    /\ sqp_force' = frc
    /\ existing' = sqp_pull
    /\ pulled' = {}
    /\ batch_idx' = 0
    /\ batch_status' = EmptyBatchStatus
    /\ IF sqp_pull.exists /\ ~frc /\ sqp_pull.status = "completed"
       THEN /\ sqp_result' = [NewResult EXCEPT !.status = "skipped"]
            /\ total_batches' = 0
            /\ spc' = "idle"
       ELSE IF n = 0
       THEN /\ sqp_result' = [NewResult EXCEPT !.status = "skipped"]
            /\ total_batches' = 0
            /\ spc' = "idle"
       ELSE IF dry
       THEN /\ sqp_result' = [NewResult EXCEPT !.status = "dry_run"]
            /\ total_batches' = n
            /\ spc' = "idle"
       ELSE /\ sqp_result' = NewResult
            /\ total_batches' = n
            /\ spc' = "create"
    /\ UNCHANGED sqp_pull
    /\ UNCHANGED notSqp

\* create_sqp_pull_record, then batch_status = dict(existing_batch_status)
SqpCreate ==
    /\ spc = "create"
    /\ sqp_pull' = create_sqp_pull_record(total_batches)
    /\ batch_status' = existing_batch_status(existing, sqp_resume, sqp_force)
    /\ batch_idx' = 0
    /\ spc' = "loop"
    /\ UNCHANGED <<sqp_resume, sqp_force, existing, total_batches,
                   sqp_result, pulled, sqp_runs>>
    /\ UNCHANGED notSqp

\* loop body, batch already completed: counted and skipped
SqpSkipBatch ==
    /\ spc = "loop"
    /\ batch_idx < total_batches
    /\ batch_status[batch_idx] = "completed"
    /\ sqp_result' = [sqp_result EXCEPT !.completed_batches = @ + 1]
    /\ batch_idx' = batch_idx + 1
    /\ UNCHANGED <<sqp_pull, spc, sqp_resume, sqp_force, existing,
                   total_batches, batch_status, pulled, sqp_runs>>
    /\ UNCHANGED notSqp

\* loop body: the batch pull, the upsert of its rows and the change of the local
\* batch_status; an exception other than RuntimeError and SPAPIError leaves the
\* loop for the outer except
SqpPullBatch(o) ==
    /\ spc = "loop"
    /\ batch_idx < total_batches
    /\ batch_status[batch_idx] # "completed"
    /\ pulled' = pulled \cup {batch_idx}
    /\ CASE o = "rows" ->
              /\ batch_status' = [batch_status EXCEPT ![batch_idx] = "completed"]
              /\ sqp_result' = [sqp_result EXCEPT !.completed_batches = @ + 1]
              /\ spc' = "update"
         [] o \in {"RuntimeError", "SPAPIError"} ->
              /\ batch_status' = [batch_status EXCEPT ![batch_idx] = "failed"]
              /\ sqp_result' = [sqp_result EXCEPT !.failed_batches = @ + 1]
              /\ spc' = "update_failed"
         [] OTHER ->
              /\ sqp_result' = [sqp_result EXCEPT !.status = "failed", !.error = TRUE]
              /\ spc' = "idle"
              /\ UNCHANGED batch_status
    /\ UNCHANGED <<sqp_pull, sqp_resume, sqp_force, existing, total_batches,
                   batch_idx, sqp_runs>>
    /\ UNCHANGED notSqp

\* update_sqp_pull_status after a completed batch
SqpUpdateBatch ==
    /\ spc = "update"
    /\ sqp_pull' = [sqp_pull EXCEPT !.batch_status = batch_status,
                                    !.completed_batches = sqp_result.completed_batches]
    /\ batch_idx' = batch_idx + 1
    /\ spc' = "loop"
    /\ UNCHANGED <<sqp_resume, sqp_force, existing, total_batches,
                   batch_status, sqp_result, pulled, sqp_runs>>
    /\ UNCHANGED notSqp

\* record_asin_error and update_sqp_pull_status after a failed batch
SqpUpdateFailed ==
    /\ spc = "update_failed"
    /\ sqp_pull' = [sqp_pull EXCEPT !.batch_status = batch_status,
                                    !.failed_batches = sqp_result.failed_batches]
    /\ batch_idx' = batch_idx + 1
    /\ spc' = "loop"
    /\ UNCHANGED <<sqp_resume, sqp_force, existing, total_batches,
                   batch_status, sqp_result, pulled, sqp_runs>>
    /\ UNCHANGED notSqp

\* after the loop: final status and the last update_sqp_pull_status
SqpFinish ==
    /\ spc = "loop"
    /\ batch_idx = total_batches
    /\ sqp_result' = [sqp_result EXCEPT !.status = final_status(sqp_result)]
    /\ sqp_pull' = [sqp_pull EXCEPT !.status = final_status(sqp_result),
                                    !.batch_status = batch_status,
                                    !.completed_batches = sqp_result.completed_batches,
                                    !.failed_batches = sqp_result.failed_batches]
    /\ spc' = "idle"
    /\ UNCHANGED <<sqp_resume, sqp_force, existing, total_batches,
                   batch_idx, batch_status, pulled, sqp_runs>>
    /\ UNCHANGED notSqp

\* the process is killed between two steps
SqpKill ==
    /\ spc # "idle"
    /\ spc' = "idle"
    /\ sqp_result' = [sqp_result EXCEPT !.status = "killed"]
    /\ UNCHANGED <<sqp_pull, sqp_resume, sqp_force, existing, total_batches,
                   batch_idx, batch_status, pulled, sqp_runs>>
    /\ UNCHANGED notSqp

----------------------------------------------------------------------------
(* detect_gaps (detect_gaps.py 69-143) *)

Dates == 0 .. MaxDate

\* no row of sp_api_pulls for a date
NoPull == [status |-> "none", asin_count |-> 0]

\* the rows sp_api_pulls can hold for a date; a row that is not completed has
\* asin_count None, which counts as 0
PullRows == {NoPull} \cup [status : {"completed"}, asin_count : 0..MaxRows]
                     \cup [status : {"failed"}, asin_count : {0}]

\* a row counts as a successful pull whatever its asin_count
successful_any_count(row) == row.status = "completed"

\* row["status"] == "completed" and (row.get("asin_count") or 0) > 0
successful(row) == row.status = "completed" /\ row.asin_count > 0

\* the select: the dates of the window that have a row, in the order of pull_date
result_data(table, start_date, end) ==
    SelectSeq([i \in 1..(MaxDate + 1) |-> i - 1],
              LAMBDA d : start_date <= d /\ d <= end /\ table[d].status # "none")

\* the first loop: the dates with a successful pull
RECURSIVE successful_dates(_, _)
successful_dates(table, data) ==
    IF data = <<>> THEN {}
    ELSE (IF successful(table[Head(data)]) THEN {Head(data)} ELSE {})
         \cup successful_dates(table, Tail(data))

\* latest_by_date.get(date_str, {}).get("status")
last_status(table, data, d) ==
    IF \E i \in 1..Len(data) : data[i] = d THEN table[d].status ELSE "none"

\* the second loop: while current <= end_date
RECURSIVE scan(_, _, _, _)
scan(table, data, current, end) ==
    IF current > end THEN <<>>
    ELSE (IF current \notin successful_dates(table, data)
          THEN <<[date |-> current, last_status |-> last_status(table, data, current)]>>
          ELSE <<>>)
         \o scan(table, data, current + 1, end)

\* detect_gaps(marketplace_code, lookback_days, end_date)
detect_gaps(table, lookback, end) ==
    LET start_date == end - (lookback - 1)
    IN  scan(table, result_data(table, start_date, end), start_date, end)

\* a pull script writes the row of a date (create_pull_record, update_pull_status)
\* while no list of gaps is held
WritePull(d, row) ==
    /\ ~detected
    /\ api_pulls[d] # row
    /\ api_pulls' = [api_pulls EXCEPT ![d] = row]
    /\ UNCHANGED <<lookback_days, end_date, gaps, detected>>
    /\ UNCHANGED notGaps

\* a call of detect_gaps
DetectGaps(lookback, end) ==
    /\ ~detected
    /\ lookback_days' = lookback
    /\ end_date' = end
    /\ gaps' = detect_gaps(api_pulls, lookback, end)
    /\ detected' = TRUE
    /\ UNCHANGED api_pulls
    /\ UNCHANGED notGaps

\* the caller is done with the list detect_gaps returned
DropGaps ==
    /\ detected
    /\ detected' = FALSE
    /\ gaps' = <<>>
    /\ lookback_days' = 0
    /\ end_date' = 0
    /\ UNCHANGED api_pulls
    /\ UNCHANGED notGaps

----------------------------------------------------------------------------
(* poll_report_status (reports.py 125-190, sqp_reports.py 405-453) *)

\* the processingStatus values of the Reports API
ProcessingStatuses == {"IN_QUEUE", "IN_PROGRESS", "DONE", "CANCELLED", "FATAL"}

\* the failure statuses without FATAL
FAILED_STATUSES_cancelled_only == {"CANCELLED"}

\* status in ["CANCELLED", "FATAL"]
FAILED_STATUSES == {"CANCELLED", "FATAL"}

\* a timeout test that never fires
timed_out_never(el, max_wait) == FALSE

\* elapsed > max_wait_seconds
timed_out(el, max_wait) == el > max_wait

\* the status requests one call is followed for; a call with poll_interval > 0
\* makes fewer (see C19)
MaxPolls == MaxWait + 3

\* poll_report_status up to the loop
PollStart(max_wait, interval) ==
    /\ ppc = "idle"
    /\ ppc' = "request"
    /\ max_wait_seconds' = max_wait
    /\ poll_interval' = interval
    /\ poll_elapsed' = 0
    /\ status_log' = <<>>
    /\ poll_result' = "none"
    /\ UNCHANGED notPoll

\* one iteration of the while True loop: the status request, which takes
\* latency seconds and is answered with status st, then the return, the raise,
\* or the sleep of poll_interval seconds
PollRequest(st, latency) ==
    /\ ppc = "request"
    /\ Len(status_log) < MaxPolls
    /\ status_log' = Append(status_log, st)
    /\ LET el == poll_elapsed + latency
       IN  IF st = "DONE"
           THEN /\ poll_result' = "reportDocumentId"
                /\ ppc' = "idle"
                /\ poll_elapsed' = el
           ELSE IF st \in FAILED_STATUSES
           THEN /\ poll_result' = "RuntimeError"
                /\ ppc' = "idle"
                /\ poll_elapsed' = el
           ELSE IF timed_out(el, max_wait_seconds)
           THEN /\ poll_result' = "TimeoutError"
                /\ ppc' = "idle"
                /\ poll_elapsed' = el
           ELSE /\ poll_elapsed' = el + poll_interval
                /\ UNCHANGED <<ppc, poll_result>>
    /\ UNCHANGED <<max_wait_seconds, poll_interval>>
    /\ UNCHANGED notPoll

\* the status request raises: client.get gave up or met a fatal status
PollRequestFails(latency) ==
    /\ ppc = "request"
    /\ Len(status_log) < MaxPolls
    /\ poll_result' = "SPAPIError"
    /\ ppc' = "idle"
    /\ poll_elapsed' = poll_elapsed + latency
    /\ UNCHANGED <<max_wait_seconds, poll_interval, status_log>>
    /\ UNCHANGED notPoll

----------------------------------------------------------------------------
(* repair_gaps (detect_gaps.py 146-259) *)

DEFAULT_MAX_REPAIRS == 10

\* the marketplaces main detects gaps for, in its order; one of region NA and
\* one of region EU
RepairMarketplaces == <<"USA", "UK">>

\* MARKETPLACE_REGION.get(gap["marketplace"], "NA")
MARKETPLACE_REGION(m) == IF m = "UK" THEN "EU" ELSE "NA"

\* the list detect_gaps returns for marketplace m when the dates of ds are its
\* gaps: one gap per date, oldest first
RECURSIVE gaps_of(_, _, _)
gaps_of(m, ds, d) ==
    IF d > MaxGapDate THEN <<>>
    ELSE (IF d \in ds THEN <<[marketplace |-> m, date |-> d]>> ELSE <<>>)
         \o gaps_of(m, ds, d + 1)

\* combined_gaps of main: the lists of the marketplaces one after the other;
\* repair_gaps is called only with a list that is not empty
CombinedGaps ==
    {gaps_of(RepairMarketplaces[1], a, 0) \o gaps_of(RepairMarketplaces[2], b, 0) :
         a \in SUBSET (0..MaxGapDate), b \in SUBSET (0..MaxGapDate)} \ {<<>>}

\* a sort that leaves the list as it is
sorted_by_date_unsorted(gs) == gs

\* one step of the stable sort: g goes behind every gap that is not newer
RECURSIVE insert_by_date(_, _)
insert_by_date(g, gs) ==
    IF gs = <<>> THEN <<g>>
    ELSE IF Head(gs).date <= g.date THEN <<Head(gs)>> \o insert_by_date(g, Tail(gs))
    ELSE <<g>> \o gs

\* sorted(gaps, key=lambda g: g["date"]); the ISO date strings order as the dates
RECURSIVE sorted_by_date(_)
sorted_by_date(gs) ==
    IF gs = <<>> THEN <<>>
    ELSE insert_by_date(gs[Len(gs)], sorted_by_date(SubSeq(gs, 1, Len(gs) - 1)))

\* the slice gs[:n] of Python, n negative included
slice_to(gs, n) ==
    IF n >= 0 THEN SubSeq(gs, 1, Min(n, Len(gs)))
    ELSE SubSeq(gs, 1, Len(gs) + n)

\* the regions of the gaps of gs in the order of their first gap
RECURSIVE regions_of(_)
regions_of(gs) ==
    IF gs = <<>> THEN <<>>
    ELSE LET r == MARKETPLACE_REGION(Head(gs).marketplace)
         IN  <<r>> \o regions_of(SelectSeq(Tail(gs),
                                   LAMBDA g : MARKETPLACE_REGION(g.marketplace) # r))

\* by_region flattened: the gaps of gs, region group by region group
by_region(gs) ==
    LET rs == regions_of(gs)
        group(r) == SelectSeq(gs, LAMBDA g : MARKETPLACE_REGION(g.marketplace) = r)
        RECURSIVE flat(_)
        flat(i) == IF i > Len(rs) THEN <<>> ELSE group(rs[i]) \o flat(i + 1)
    IN  flat(1)

NoSummary == [total_gaps |-> 0, attempted |-> 0, repaired |-> 0, failed |-> 0,
              skipped |-> 0, remaining |-> 0, details |-> <<>>]

\* the entry of details for gap g
detail(g, st) == [marketplace |-> g.marketplace, date |-> g.date, status |-> st]

\* repair_gaps up to the loop over the regions; a dry run returns from here
RepairStart(gs, max, dry) ==
    /\ fpc = "idle"
    /\ gaps_arg' = gs
    /\ max_repairs' = max
    /\ dry_run' = dry
    /\ LET fix == slice_to(sorted_by_date(gs), max)
           new == [NoSummary EXCEPT !.total_gaps = Len(gs),
                                    !.attempted = Len(fix),
                                    !.remaining = Len(gs) - Len(fix)]
       IN  /\ gaps_to_fix' = fix
           /\ IF dry
              THEN /\ summary' = [new EXCEPT !.details = [i \in 1..Len(fix) |->
                                                             detail(fix[i], "dry_run")],
                                             !.skipped = Len(fix)]
                   /\ todo' = <<>>
                   /\ fpc' = "returned"
              ELSE /\ summary' = new
                   /\ todo' = by_region(fix)
                   /\ fpc' = "region"
    /\ repair_pulls' = <<>>
    /\ UNCHANGED notRepair

\* the head of the loop over the regions where a failed authentication counts
\* as one failure for the whole region
RepairAuth_one_failure(ok) ==
    /\ fpc = "region"
    /\ todo # <<>>
    /\ LET r == MARKETPLACE_REGION(Head(todo).marketplace)
           mine == SelectSeq(todo, LAMBDA g : MARKETPLACE_REGION(g.marketplace) = r)
           rest == SelectSeq(todo, LAMBDA g : MARKETPLACE_REGION(g.marketplace) # r)
       IN  IF ok
           THEN /\ fpc' = "gap"
                /\ UNCHANGED <<todo, summary>>
           ELSE /\ summary' = [summary EXCEPT
                                  !.details = @ \o [i \in 1..Len(mine) |->
                                                       detail(mine[i], "auth_failed")],
                                  !.failed = @ + 1]
                /\ todo' = rest
                /\ UNCHANGED fpc
    /\ UNCHANGED <<gaps_arg, max_repairs, dry_run, gaps_to_fix, repair_pulls>>
    /\ UNCHANGED notRepair

\* the head of the loop over the regions: get_access_token and SPAPIClient for
\* the region of the next gaps; when they raise, every gap of the region gets
\* an auth_failed entry and counts as failed
RepairAuth(ok) ==
    /\ fpc = "region"
    /\ todo # <<>>
    /\ LET r == MARKETPLACE_REGION(Head(todo).marketplace)
           mine == SelectSeq(todo, LAMBDA g : MARKETPLACE_REGION(g.marketplace) = r)
           rest == SelectSeq(todo, LAMBDA g : MARKETPLACE_REGION(g.marketplace) # r)
       IN  IF ok
           THEN /\ fpc' = "gap"
                /\ UNCHANGED <<todo, summary>>
           ELSE /\ summary' = [summary EXCEPT
                                  !.details = @ \o [i \in 1..Len(mine) |->
                                                       detail(mine[i], "auth_failed")],
                                  !.failed = @ + Len(mine)]
                /\ todo' = rest
                /\ UNCHANGED fpc
    /\ UNCHANGED <<gaps_arg, max_repairs, dry_run, gaps_to_fix, repair_pulls>>
    /\ UNCHANGED notRepair

\* one gap of the region: pull_marketplace_data returns a result of status st
\* ("completed" or "failed") or raises ("exception")
RepairGap(st) ==
    /\ fpc = "gap"
    /\ LET g == Head(todo)
           rest == Tail(todo)
       IN  /\ repair_pulls' = Append(repair_pulls, g)
           /\ summary' = [summary EXCEPT
                             !.details = Append(@, detail(g, st)),
                             !.repaired = IF st = "completed" THEN @ + 1 ELSE @,
                             !.failed = IF st = "completed" THEN @ ELSE @ + 1]
           /\ todo' = rest
           /\ fpc' = IF rest # <<>> /\ MARKETPLACE_REGION(Head(rest).marketplace)
                                         = MARKETPLACE_REGION(g.marketplace)
                     THEN "gap" ELSE "region"
    /\ UNCHANGED <<gaps_arg, max_repairs, dry_run, gaps_to_fix>>
    /\ UNCHANGED notRepair

\* return summary
RepairReturn ==
    /\ fpc = "region"
    /\ todo = <<>>
    /\ fpc' = "returned"
    /\ UNCHANGED <<gaps_arg, max_repairs, dry_run, gaps_to_fix, todo, summary,
                   repair_pulls>>
    /\ UNCHANGED notRepair

\* main is done with the summary
RepairDrop ==
    /\ fpc = "returned"
    /\ fpc' = "idle"
    /\ gaps_arg' = <<>>
    /\ max_repairs' = 0
    /\ dry_run' = FALSE
    /\ gaps_to_fix' = <<>>
    /\ todo' = <<>>
    /\ summary' = NoSummary
    /\ repair_pulls' = <<>>
    /\ UNCHANGED notRepair

----------------------------------------------------------------------------
(* download_report (reports.py 193-254, sqp_reports.py 460-493) *)

\* download_report is called with a client: its first step is
\* client.get(url, api_type="reports_get"), the client's next request call
DownloadStart ==
    /\ dpc = "idle"
    /\ cpc = "idle"
    /\ calls < MaxCalls
    /\ dpc' = "doc_info"
    /\ doc_call' = calls + 1
    /\ payload_log' = <<>>
    /\ report_data' = "none"
    /\ UNCHANGED notDownload

\* the request call of download_report
DownloadRequest ==
    /\ dpc = "doc_info"
    /\ calls < doc_call
    /\ Request("reports_get")

\* what raise_for_status and the transport make of the answer to the fetch
payload_error(o) ==
    IF IsException(o) THEN o.kind
    ELSE IF o.code >= 400 THEN "HTTPError"
    ELSE "none"

\* after client.get: it raised, or the payload is fetched once from the signed
\* URL with client.session.get and answered with o; raise_for_status, then the
\* payload is decompressed and parsed
DownloadFetch(o) ==
    /\ dpc = "doc_info"
    /\ calls = doc_call
    /\ cpc = "idle"
    /\ IF result # "response"
       THEN /\ report_data' = result
            /\ UNCHANGED payload_log
       ELSE /\ payload_log' = Append(payload_log, o)
            /\ report_data' = IF payload_error(o) = "none" THEN "report_data"
                              ELSE payload_error(o)
    /\ dpc' = "idle"
    /\ UNCHANGED doc_call
    /\ UNCHANGED notDownload

----------------------------------------------------------------------------
(* The pull paths and the route of their SP-API requests *)

\* the scripts that pull a report: pull_daily_sales.pull_marketplace_data,
\* backfill_historical.pull_single_day, and pull_inventory with the functions
\* of inventory_reports.py
PullPaths == {"daily_sales", "backfill_historical", "inventory"}

\* the SP-API requests of a report pull, in their order
PathSteps == <<"create", "poll", "document">>

\* whether the path hands a client to the request functions: pull_single_day
\* passes only access_token, the functions of inventory_reports.py take none
passes_client(path) == path = "daily_sales"

\* the route of a request: client.get / client.post when a client was handed
\* in, else requests.get / requests.post followed by raise_for_status
route(path) == IF passes_client(path) THEN "SPAPIClient.request" ELSE "requests"

\* a script starts the pull of a report
PathStart(path) ==
    /\ pull_path = "none"
    /\ pull_path' = path
    /\ path_step' = 1
    /\ path_retries' = 0
    /\ http_log' = <<>>
    /\ UNCHANGED notPath

\* one HTTP request of the pull, answered with o: through the client it waits
\* for the rate limit first and is retried as should_retry says; sent with
\* requests it is not, and any failure raises out of the pull
PathRequest(o) ==
    /\ pull_path # "none"
    /\ http_log' = Append(http_log,
                          [step |-> PathSteps[path_step], via |-> route(pull_path),
                           waited |-> route(pull_path) = "SPAPIClient.request",
                           outcome |-> o])
    /\ IF ~IsException(o) /\ o.code < 400
       THEN /\ path_retries' = 0
            /\ IF path_step = Len(PathSteps)
               THEN pull_path' = "none" /\ path_step' = 0
               ELSE path_step' = path_step + 1 /\ UNCHANGED pull_path
       ELSE IF route(pull_path) = "SPAPIClient.request" /\ should_retry(o, path_retries)
       THEN /\ path_retries' = path_retries + 1
            /\ UNCHANGED <<pull_path, path_step>>
       ELSE /\ pull_path' = "none"
            /\ path_step' = 0
            /\ path_retries' = 0
    /\ UNCHANGED notPath

----------------------------------------------------------------------------
----------------------------------------------------------------------------
(* SPAPIClient.__init__ and make_request_with_retry (api_client.py) *)

\* the tuning parameters of SPAPIClient.__init__
Params == {"max_retries", "base_delay", "max_delay", "timeout"}

\* the default None of a keyword argument: the argument was not passed
NoArg == -1

\* the values a caller passes for a tuning parameter
ArgValues == {NoArg} \cup (0 .. MaxArg)

\* os.environ.get(NAME, literal) converted: the literals when the variables
\* are unset, and one environment that sets all four
Environments ==
    { [max_retries |-> 5, base_delay |-> 1, max_delay |-> 60, timeout |-> 30],
      [max_retries |-> 3, base_delay |-> 2, max_delay |-> 30, timeout |-> 10] }

\* x if x is not None else d
value_or_default(x, d) == IF x = NoArg THEN d ELSE x

\* Python's x or d: d when x is None and also when x is 0 or 0.0
py_or(x, d) == IF x = NoArg \/ x = 0 THEN d ELSE x

\* no client built yet
NoClient == [built |-> FALSE,
             attrs |-> [p \in Params |-> 0],
             retry_strategy |-> [p \in Params \ {"timeout"} |-> 0]]

\* SPAPIClient.__init__: the attributes and the RetryStrategy built from them
SPAPIClient(args, env) ==
    LET attrs == [p \in Params |-> py_or(args[p], env[p])]
    IN  [built |-> TRUE,
         attrs |-> attrs,
         retry_strategy |-> [p \in Params \ {"timeout"} |-> attrs[p]]]

\* a caller builds a client
Construct(args, env) ==
    /\ ctor_args' = args
    /\ ctor_env' = env
    /\ new_client' = SPAPIClient(args, env)
    /\ UNCHANGED notCtor

\* make_request_with_retry: a client built with max_retries only (5 when the
\* caller leaves it out)
MakeRequestWithRetry(retries, env) ==
    LET args == [p \in Params |-> IF p = "max_retries"
                                  THEN value_or_default(retries, 5) ELSE NoArg]
    IN  /\ ctor_args' = args
        /\ ctor_env' = env
        /\ new_client' = SPAPIClient(args, env)
        /\ UNCHANGED notCtor

----------------------------------------------------------------------------
(* ASIN error tracking: record_asin_error, get_active_asins_for_sqp (db.py) *)

\* the child ASINs of the marketplace's recent sales data
Asins == 1 .. MaxAsins

\* occurrence_count from which record_asin_error sets suppressed
SUPPRESS_AFTER == 3

\* no sp_sqp_asin_errors row
NoAsinError == [exists |-> FALSE, occurrence_count |-> 0, suppressed |-> FALSE]

\* record_asin_error: the row of the ASIN after the call
record_asin_error(row) ==
    IF row.exists
    THEN [row EXCEPT !.occurrence_count = @ + 1,
                     !.suppressed = (row.occurrence_count + 1 >= SUPPRESS_AFTER)]
    ELSE [exists |-> TRUE, occurrence_count |-> 1, suppressed |-> FALSE]

\* get_suppressed_asins
get_suppressed_asins(tbl) == {a \in Asins : tbl[a].suppressed}

\* get_active_asins_for_sqp: the ASINs of the sales data that are not suppressed
get_active_asins_for_sqp(tbl) == Asins \ get_suppressed_asins(tbl)

\* the batches a pull can hold: non-empty sets of active ASINs
Batches(tbl) == SUBSET get_active_asins_for_sqp(tbl) \ {{}}

\* a batch is pulled and upserted: no error is recorded
AsinBatchCompleted(batch) ==
    /\ batch \in Batches(asin_errors)
    /\ streak' = [a \in Asins |-> IF a \in batch THEN 0 ELSE streak[a]]
    /\ UNCHANGED asin_errors
    /\ UNCHANGED notAsin

\* the pull of a batch raises RuntimeError or SPAPIError: record_asin_error
\* for every ASIN of the batch
AsinBatchFailed(batch) ==
    /\ batch \in Batches(asin_errors)
    /\ asin_errors' = [a \in Asins |-> IF a \in batch
                                       THEN record_asin_error(asin_errors[a])
                                       ELSE asin_errors[a]]
    /\ streak' = [a \in Asins |-> IF a \in batch THEN streak[a] + 1 ELSE streak[a]]
    /\ UNCHANGED notAsin

----------------------------------------------------------------------------
(* batch_asins (sqp_reports.py) and the resume of pull_for_marketplace over the
   active ASINs of the day (pull_sqp.py 111-286) *)

\* len(asin): standard ASINs are 10 characters
AsinLength == 10

\* sorted(active_asins)
RECURSIVE sorted_asins(_)
sorted_asins(S) ==
    IF S = {} THEN <<>>
    ELSE LET least == CHOOSE a \in S : \A b \in S : a <= b
         IN  <<least>> \o sorted_asins(S \ {least})

\* the for loop of batch_asins from the k-th ASIN on
RECURSIVE batch_loop(_, _, _, _, _, _)
batch_loop(asin_list, k, current_batch, current_length, char_limit, batches) ==
    IF k > Len(asin_list)
    THEN IF current_batch # <<>> THEN Append(batches, current_batch) ELSE batches
    ELSE LET additional == AsinLength + (IF current_batch # <<>> THEN 1 ELSE 0)
         IN  IF current_length + additional > char_limit
             THEN batch_loop(asin_list, k + 1, <<asin_list[k]>>, AsinLength, char_limit,
                             IF current_batch # <<>> THEN Append(batches, current_batch)
                             ELSE batches)
             ELSE batch_loop(asin_list, k + 1, Append(current_batch, asin_list[k]),
                             current_length + additional, char_limit, batches)

\* batch_asins
batch_asins(asin_list, char_limit) ==
    IF asin_list = <<>> THEN <<>>
    ELSE batch_loop(asin_list, 1, <<>>, 0, char_limit, <<>>)

\* the batches of the running / last pull, and the ASINs of batch index i
b_batches == batch_asins(b_asins, CharLimit)
batch_set(i) == {b_batches[i + 1][j] : j \in 1 .. Len(b_batches[i + 1])}

\* the keys batch_status can hold
BatchIndices == 0 .. (MaxAsins - 1)
NoBatchStatus == [i \in BatchIndices |-> "none"]

\* get_existing_sqp_pull returning None
NoRow == [exists |-> FALSE, status |-> "none", batch_status |-> NoBatchStatus]

\* the result dict before the loop
PendingResult == [status |-> "pending", completed_batches |-> 0, failed_batches |-> 0]

\* pull_for_marketplace(resume=True, force=False) up to the batch loop: the
\* existing row, the active ASINs of the moment, create_sqp_pull_record and
\* the adopted batch_status
RebatchStart(active) ==
    /\ bpc = "idle"
    /\ b_runs < MaxSqpRuns
    /\ b_runs' = b_runs + 1
    /\ b_skipped' = {}
    /\ b_idx' = 0
    /\ IF b_row.exists /\ b_row.status = "completed"
       THEN /\ b_result' = [PendingResult EXCEPT !.status = "skipped"]
            /\ UNCHANGED <<bpc, b_row, b_asins, b_batch_status>>
       ELSE IF active = {}
       THEN /\ b_result' = [PendingResult EXCEPT !.status = "skipped"]
            /\ b_asins' = <<>>
            /\ UNCHANGED <<bpc, b_row, b_batch_status>>
       ELSE /\ b_result' = PendingResult
            /\ b_asins' = sorted_asins(active)
            /\ b_row' = [exists |-> TRUE, status |-> "processing",
                         batch_status |-> NoBatchStatus]
            /\ b_batch_status' = IF b_row.exists /\ b_row.batch_status # NoBatchStatus
                                 THEN b_row.batch_status ELSE NoBatchStatus
            /\ bpc' = "loop"
    /\ UNCHANGED <<b_with, b_covered>>
    /\ UNCHANGED notRebatch

\* loop body, batch index already completed: counted and skipped
RebatchSkip ==
    /\ bpc = "loop"
    /\ b_idx < Len(b_batches)
    /\ b_batch_status[b_idx] = "completed"
    /\ b_result' = [b_result EXCEPT !.completed_batches = @ + 1]
    /\ b_skipped' = b_skipped \cup {b_idx}
    /\ b_idx' = b_idx + 1
    /\ UNCHANGED <<bpc, b_row, b_asins, b_batch_status, b_with, b_covered, b_runs>>
    /\ UNCHANGED notRebatch

\* loop body: the batch is pulled and upserted (ok), or its pull raises
\* RuntimeError / SPAPIError; update_sqp_pull_status persists batch_status
RebatchPull(ok) ==
    /\ bpc = "loop"
    /\ b_idx < Len(b_batches)
    /\ b_batch_status[b_idx] # "completed"
    /\ LET st == IF ok THEN "completed" ELSE "failed"
       IN  /\ b_batch_status' = [b_batch_status EXCEPT ![b_idx] = st]
           /\ b_row' = [b_row EXCEPT !.batch_status = b_batch_status']
    /\ b_result' = IF ok THEN [b_result EXCEPT !.completed_batches = @ + 1]
                   ELSE [b_result EXCEPT !.failed_batches = @ + 1]
    /\ b_with' = IF ok THEN [b_with EXCEPT ![b_idx] = batch_set(b_idx)] ELSE b_with
    /\ b_covered' = IF ok THEN b_covered \cup batch_set(b_idx) ELSE b_covered
    /\ b_idx' = b_idx + 1
    /\ UNCHANGED <<bpc, b_asins, b_skipped, b_runs>>
    /\ UNCHANGED notRebatch

\* after the loop: final status and the last update_sqp_pull_status
RebatchFinish ==
    /\ bpc = "loop"
    /\ b_idx = Len(b_batches)
    /\ LET st == final_status(b_result)
       IN  /\ b_result' = [b_result EXCEPT !.status = st]
           /\ b_row' = [b_row EXCEPT !.status = st, !.batch_status = b_batch_status]
    /\ bpc' = "idle"
    /\ UNCHANGED <<b_asins, b_batch_status, b_idx, b_skipped, b_with, b_covered, b_runs>>
    /\ UNCHANGED notRebatch

\* the process is killed inside the loop
RebatchKill ==
    /\ bpc = "loop"
    /\ bpc' = "idle"
    /\ b_result' = [b_result EXCEPT !.status = "killed"]
    /\ UNCHANGED <<b_row, b_asins, b_batch_status, b_idx, b_skipped, b_with, b_covered,
                   b_runs>>
    /\ UNCHANGED notRebatch

----------------------------------------------------------------------------
(* upsert_orders_asin_data and upsert_asin_data on one (marketplace, date)
   of sp_daily_asin_data (db.py) *)

\* the first n elements of a list and the rest: filtered_rows[i:i + chunk_size]
chunk_of(list, n) == SubSeq(list, 1, Min(n, Len(list)))
rest_of(list, n) == SubSeq(list, Min(n, Len(list)) + 1, Len(list))
elements(list) == {list[k] : k \in 1 .. Len(list)}

\* step 1 and 2 of upsert_orders_asin_data: the ASINs that have a
\* sales_traffic row are read, the rows of the others are kept
OrdersRead(order_rows) ==
    /\ upc = "idle"
    /\ order_rows # {}
    /\ st_asins' = {a \in Asins : daily_data[a] = "sales_traffic"}
    /\ filtered_rows' = sorted_asins(order_rows \ st_asins')
    /\ upc' = IF filtered_rows' = <<>> THEN "idle" ELSE "upsert"
    /\ UNCHANGED <<daily_data, st_written>>
    /\ UNCHANGED notUpsert

\* step 3: one chunk is upserted with data_source orders
OrdersUpsertChunk ==
    /\ upc = "upsert"
    /\ daily_data' = [a \in Asins |->
                        IF a \in elements(chunk_of(filtered_rows, ChunkSize))
                        THEN "orders" ELSE daily_data[a]]
    /\ filtered_rows' = rest_of(filtered_rows, ChunkSize)
    /\ upc' = IF filtered_rows' = <<>> THEN "idle" ELSE "upsert"
    /\ UNCHANGED <<st_asins, st_written>>
    /\ UNCHANGED notUpsert

\* upsert_asin_data in the Sales & Traffic process: one upsert of all its rows
UpsertSalesTraffic(asins) ==
    /\ asins # {}
    /\ daily_data' = [a \in Asins |-> IF a \in asins THEN "sales_traffic"
                                      ELSE daily_data[a]]
    /\ st_written' = st_written \cup asins
    /\ UNCHANGED <<upc, st_asins, filtered_rows>>
    /\ UNCHANGED notUpsert

vars == <<clientVars, trackerVars, sqpVars, gapVars, pollVars, delayVars, downloadVars,
          pathVars, repairVars, ctorVars, asinVars, rebatchVars, upsertVars>>

InitClient ==
    /\ since_request = [t \in ApiTypes |-> Horizon]
    /\ current_limits = [t \in ApiTypes |-> 0]
    /\ stats = [requests |-> 0, retries |-> 0, rate_limit_waits |-> 0, errors |-> 0]
    /\ cpc = "idle"
    /\ api_type = "default"
    /\ attempt = 0
    /\ result = "none"
    /\ log = <<>>
    /\ backoff = 0
    /\ since_sent = [t \in ApiTypes |-> Horizon]
    /\ gap = Horizon
    /\ floor = 0
    /\ prevCall = "none"
    /\ calls = 0
    /\ limit_header = ""
    /\ raised = 0

InitTracker ==
    /\ ckpt = [exists |-> FALSE, status |-> "none", marketplace_status |-> EmptyStatus,
               last_completed |-> "", error_count |-> 0, last_error |-> "",
               total_row_count |-> 0, completed_at |-> FALSE]
    /\ pulls = [m \in Units |-> [status |-> "none", asin_count |-> 0]]
    /\ imports = [m \in Units |-> "none"]
    /\ rows = [m \in Units |-> FALSE]
    /\ totals = [m \in Units |-> FALSE]
    /\ tracker = NewTracker
    /\ rpc = "idle"
    /\ resume = TRUE
    /\ skip_existing = TRUE
    /\ marketplaces = <<>>
    /\ idx = 0
    /\ asin_count = 0
    /\ error_msg = ""
    /\ results = <<>>
    /\ runs = 0
    /\ alerts = <<>>
    /\ http_retries = [m \in Units |-> 0]
    /\ report_date = "date"
    /\ exit_code = NoExit

InitSqp ==
    /\ sqp_pull = NoSqpPull
    /\ spc = "idle"
    /\ sqp_resume = TRUE
    /\ sqp_force = FALSE
    /\ existing = NoSqpPull
    /\ total_batches = 0
    /\ batch_idx = 0
    /\ batch_status = EmptyBatchStatus
    /\ sqp_result = NewResult
    /\ pulled = {}
    /\ sqp_runs = 0

InitGaps ==
    /\ api_pulls = [d \in Dates |-> NoPull]
    /\ lookback_days = 0
    /\ end_date = 0
    /\ gaps = <<>>
    /\ detected = FALSE

InitPoll ==
    /\ ppc = "idle"
    /\ max_wait_seconds = 0
    /\ poll_interval = 0
    /\ poll_elapsed = 0
    /\ status_log = <<>>
    /\ poll_result = "none"

InitDelay ==
    /\ rs_config = [base |-> 10, max |-> 600]
    /\ rs_calls = <<>>

InitRepair ==
    /\ fpc = "idle"
    /\ gaps_arg = <<>>
    /\ max_repairs = 0
    /\ dry_run = FALSE
    /\ gaps_to_fix = <<>>
    /\ todo = <<>>
    /\ summary = NoSummary
    /\ repair_pulls = <<>>

InitDownload ==
    /\ dpc = "idle"
    /\ doc_call = 0
    /\ payload_log = <<>>
    /\ report_data = "none"

InitPath ==
    /\ pull_path = "none"
    /\ path_step = 0
    /\ path_retries = 0
    /\ http_log = <<>>

InitCtor ==
    /\ ctor_args = [p \in Params |-> NoArg]
    /\ ctor_env = [max_retries |-> 5, base_delay |-> 1, max_delay |-> 60, timeout |-> 30]
    /\ new_client = NoClient

InitAsin ==
    /\ asin_errors = [a \in Asins |-> NoAsinError]
    /\ streak = [a \in Asins |-> 0]

InitRebatch ==
    /\ bpc = "idle"
    /\ b_row = NoRow
    /\ b_asins = <<>>
    /\ b_batch_status = NoBatchStatus
    /\ b_idx = 0
    /\ b_result = PendingResult
    /\ b_skipped = {}
    /\ b_with = [i \in BatchIndices |-> {}]
    /\ b_covered = {}
    /\ b_runs = 0

InitUpsert ==
    /\ daily_data = [a \in Asins |-> "none"]
    /\ upc = "idle"
    /\ st_asins = {}
    /\ filtered_rows = <<>>
    /\ st_written = {}

Init == InitClient /\ InitTracker /\ InitSqp /\ InitGaps /\ InitPoll /\ InitDelay
        /\ InitRepair /\ InitDownload /\ InitPath /\ InitCtor /\ InitAsin /\ InitRebatch /\ InitUpsert

\* the client under every outcome of the transport, with prompt responses that
\* carry no rate-limit header
NextClient ==
    \/ \E t \in ApiTypes : Request(t)
    \/ \E o \in Outcomes, ra \in RetryAfterHeaders : Iterate(o, 0, "", ra)
    \/ Elapse

SpecClient == Init /\ [][NextClient]_vars

\* the client's timing: responses that take time and carry rate-limit headers,
\* under one outcome of each kind (success, retried status, retried exception)
TimedOutcomes == {o \in Outcomes : o.kind = "ConnectionError" \/ o.code \in {200, 500}}

NextRate ==
    \/ \E t \in ApiTypes : Request(t)
    \/ \E o \in TimedOutcomes, latency \in 0..1, lh \in LimitHeaders :
          Iterate(o, latency, lh, "")
    \/ Elapse

SpecRate == Init /\ [][NextRate]_vars

\* tracked region runs on one checkpoint key, any of which may be killed
NextTracker ==
    \/ \E res \in BOOLEAN, skip \in BOOLEAN, rd \in ReportDates : RunStart(res, skip, rd)
    \/ StartUnit
    \/ CheckExisting
    \/ CreateImport
    \/ CreatePull
    \/ MarkProcessing
    \/ \E n \in AsinCounts, k \in {0, max_retries} : PullReport(n, k)
    \/ \E e \in {"SPAPIError", "Exception"} : PullReportFails(e)
    \/ UpsertAsin
    \/ UpsertTotals
    \/ MarkPullCompleted
    \/ MarkImportCompleted
    \/ CompleteUnit
    \/ FailUnit("200")
    \/ MarkFailed
    \/ FinishRun("200")
    \/ Kill

SpecTracker == Init /\ [][NextTracker]_vars

\* the same with every run started without --force and without --no-resume
NextResume ==
    \/ \E rd \in ReportDates : RunStart(TRUE, TRUE, rd)
    \/ StartUnit
    \/ CheckExisting
    \/ CreateImport
    \/ CreatePull
    \/ MarkProcessing
    \/ \E n \in AsinCounts, k \in {0, max_retries} : PullReport(n, k)
    \/ \E e \in {"SPAPIError", "Exception"} : PullReportFails(e)
    \/ UpsertAsin
    \/ UpsertTotals
    \/ MarkPullCompleted
    \/ MarkImportCompleted
    \/ CompleteUnit
    \/ FailUnit("200")
    \/ MarkFailed
    \/ FinishRun("200")
    \/ Kill

SpecResume == Init /\ [][NextResume]_vars

\* forced runs from the start (--force --no-resume) under every fate of the
\* posts to Slack
NextAlert ==
    \/ \E rd \in ReportDates : RunStart(FALSE, FALSE, rd)
    \/ StartUnit
    \/ CheckExisting
    \/ CreateImport
    \/ CreatePull
    \/ MarkProcessing
    \/ \E n \in AsinCounts, k \in {0, max_retries} : PullReport(n, k)
    \/ \E e \in {"SPAPIError", "Exception"} : PullReportFails(e)
    \/ UpsertAsin
    \/ UpsertTotals
    \/ MarkPullCompleted
    \/ MarkImportCompleted
    \/ CompleteUnit
    \/ \E dl \in Deliveries : FailUnit(dl)
    \/ MarkFailed
    \/ \E dl \in Deliveries : FinishRun(dl)
    \/ Kill

SpecAlert == Init /\ [][NextAlert]_vars

\* SQP/SCP runs with every combination of --no-resume, --force and --dry-run
NextSqp ==
    \/ \E res \in BOOLEAN, frc \in BOOLEAN, dry \in BOOLEAN, n \in BatchCounts :
           SqpStart(res, frc, dry, n)
    \/ SqpCreate
    \/ SqpSkipBatch
    \/ \E o \in BatchOutcomes : SqpPullBatch(o)
    \/ SqpUpdateBatch
    \/ SqpUpdateFailed
    \/ SqpFinish
    \/ SqpKill

SpecSqp == Init /\ [][NextSqp]_vars

\* the same with every run started with resume and without --force
NextSqpResume ==
    \/ \E dry \in BOOLEAN, n \in BatchCounts : SqpStart(TRUE, FALSE, dry, n)
    \/ SqpCreate
    \/ SqpSkipBatch
    \/ \E o \in BatchOutcomes : SqpPullBatch(o)
    \/ SqpUpdateBatch
    \/ SqpUpdateFailed
    \/ SqpFinish
    \/ SqpKill

SpecSqpResume == Init /\ [][NextSqpResume]_vars

\* gap detection over every table of pull rows, window length and end date
NextGaps ==
    \/ \E d \in Dates, row \in PullRows : WritePull(d, row)
    \/ \E lookback \in 0..(MaxDate + 2), end \in Dates : DetectGaps(lookback, end)
    \/ DropGaps

SpecGaps == Init /\ [][NextGaps]_vars

\* polling under every wait limit, interval, status sequence and latency
PollStep ==
    \/ \E st \in ProcessingStatuses, latency \in 0..MaxLatency : PollRequest(st, latency)
    \/ \E latency \in 0..MaxLatency : PollRequestFails(latency)

NextPoll ==
    \/ \E max_wait \in 0..MaxWait, interval \in 0..MaxInterval : PollStart(max_wait, interval)
    \/ PollStep

SpecPoll == Init /\ [][NextPoll]_vars

\* every status request and every sleep of a running call comes to its end
SpecPollFair == SpecPoll /\ WF_vars(PollStep)

\* get_delay asked about every attempt number, in any order
NextDelay ==
    \/ \E cfg \in RetryConfigs : NewStrategy(cfg)
    \/ \E att \in 0..MaxAttempt, ra \in DelayHeaders : GetDelay(att, ra)

SpecDelay == Init /\ [][NextDelay]_vars

\* repair_gaps as main calls it: a real run with any --max-repairs, or a dry run
\* with the default max_repairs
NextRepair ==
    \/ \E gs \in CombinedGaps, max \in (-1)..MaxRepairs : RepairStart(gs, max, FALSE)
    \/ \E gs \in CombinedGaps : RepairStart(gs, DEFAULT_MAX_REPAIRS, TRUE)
    \/ \E ok \in BOOLEAN : RepairAuth(ok)
    \/ \E st \in {"completed", "failed", "exception"} : RepairGap(st)
    \/ RepairReturn
    \/ RepairDrop

SpecRepair == Init /\ [][NextRepair]_vars

\* downloads of reports on one client, under every answer to the request for
\* the document info and to the fetch of the payload
NextDownload ==
    \/ DownloadStart
    \/ DownloadRequest
    \/ \E o \in Outcomes, ra \in RetryAfterHeaders : Iterate(o, 0, "", ra)
    \/ \E o \in Outcomes : DownloadFetch(o)

SpecDownload == Init /\ [][NextDownload]_vars

\* report pulls by every script, under a success, a retryable status and a
\* retryable exception as answers
PathOutcomes == {o \in Outcomes : o.kind = "Timeout" \/ o.code \in {200, 500}}

NextPath ==
    \/ \E path \in PullPaths : PathStart(path)
    \/ \E o \in PathOutcomes : PathRequest(o)

SpecPath == Init /\ [][NextPath]_vars

\* clients built with every combination of passed and omitted parameters
NextCtor ==
    \/ \E args \in [Params -> ArgValues], env \in Environments : Construct(args, env)
    \/ \E retries \in ArgValues, env \in Environments : MakeRequestWithRetry(retries, env)

SpecCtor == Init /\ [][NextCtor]_vars

\* batches of active ASINs that complete or fail, pull after pull
NextAsin ==
    \/ \E batch \in SUBSET Asins : AsinBatchCompleted(batch)
    \/ \E batch \in SUBSET Asins : AsinBatchFailed(batch)

SpecAsin == Init /\ [][NextAsin]_vars

\* resumed pulls of one period, each over the ASINs active when it starts
NextRebatch ==
    \/ \E active \in SUBSET Asins : RebatchStart(active)
    \/ RebatchSkip
    \/ \E ok \in BOOLEAN : RebatchPull(ok)
    \/ RebatchFinish
    \/ RebatchKill

SpecRebatch == Init /\ [][NextRebatch]_vars

\* the orders upsert and the Sales & Traffic upsert as two processes whose
\* database requests interleave
NextUpsert ==
    \/ \E order_rows \in SUBSET Asins : OrdersRead(order_rows)
    \/ OrdersUpsertChunk
    \/ \E asins \in SUBSET Asins : UpsertSalesTraffic(asins)

SpecUpsert == Init /\ [][NextUpsert]_vars

----------------------------------------------------------------------------
(* Claims about SPAPIClient.request *)

Last(l) == l[Len(l)]

\* the claims' own reading of an attempt's outcome
FailedTransiently(o) ==
    \/ o.kind \in {"ConnectionError", "Timeout"}
    \/ o.kind = "status" /\ o.code \in {429, 500, 502, 503, 504}
SameError(a, b) ==
    \/ a.kind \in {"ConnectionError", "Timeout"} /\ b.kind \in {"ConnectionError", "Timeout"}
    \/ a = b
TypedErrorFor(o) ==
    IF o.kind = "status" /\ o.code = 429 THEN "SPAPIRateLimitError"
    ELSE "SPAPITransientError"
AllSameTransient(l) ==
    /\ l # <<>>
    /\ FailedTransiently(l[1])
    /\ \A i \in 1..Len(l) : SameError(l[i], l[1])

\* C1: when every attempt of a call fails with the same transient error, the
\* call is still retrying until it has made max_retries + 1 attempts, then
\* raises the typed error of that failure; no call makes more than
\* max_retries + 1 attempts.
C1_RetryCeiling ==
    /\ Len(log) <= max_retries + 1
    /\ AllSameTransient(log) =>
          \/ cpc = "loop" /\ result = "none" /\ Len(log) <= max_retries
          \/ /\ cpc = "idle"
             /\ Len(log) = max_retries + 1
             /\ result = TypedErrorFor(log[1])

C1_Witness ==
    /\ cpc = "idle"
    /\ Len(log) = max_retries + 1
    /\ \A i \in 1..Len(log) : log[i] = [kind |-> "status", code |-> 429]
    /\ result = "SPAPIRateLimitError"

\* C2: after k <= max_retries transient failures in a row (any mix) the call
\* has not raised and goes on to the next attempt, and an attempt answered
\* with a status < 400 makes the call return that response.
C2_SuccessAfterTransients ==
    /\ (calls > 0 /\ Len(log) <= max_retries
            /\ \A i \in 1..Len(log) : FailedTransiently(log[i]))
          => cpc = "loop" /\ result = "none"
    /\ (log # <<>> /\ Last(log).kind = "status" /\ Last(log).code < 400)
          => cpc = "idle" /\ result = "response"

C2_Witness ==
    /\ Len(log) = max_retries + 1
    /\ log[1].kind = "ConnectionError"
    /\ log[2] = [kind |-> "status", code |-> 500]
    /\ Last(log) = [kind |-> "status", code |-> 200]
    /\ result = "response"

\* C3: a 4xx response other than 429 ends the call at once with
\* SPAPIFatalError: it is the call's last attempt, it is not counted as a
\* retry, and when it answers the first attempt the call has made exactly one
\* attempt and slept no backoff.
C3_FatalShortCircuit ==
    \A i \in 1..Len(log) :
        (log[i].kind = "status" /\ log[i].code \in (400..499) \ {429}) =>
            /\ i = Len(log)
            /\ cpc = "idle"
            /\ result = "SPAPIFatalError"
            /\ attempt = i - 1
            /\ (i = 1 => backoff = 0)

C3_Witness ==
    /\ log = << [kind |-> "status", code |-> 403] >>
    /\ result = "SPAPIFatalError"
    /\ backoff = 0

\* C9: the first HTTP request of a call is sent at least the api type's
\* minimum interval after the last HTTP request of the preceding call, when
\* both calls have the same api_type.
C9_RateLimitFloor ==
    (Len(log) = 1 /\ prevCall = api_type) => gap >= floor

\* C10: every HTTP attempt is stamped by record_request: the last stamp of an
\* api type is never older than the last request sent on it.
C10_StampEveryAttempt ==
    \A t \in ApiTypes : since_request[t] <= since_sent[t]

----------------------------------------------------------------------------
(* Claims about the checkpointed region run *)

\* the units the persisted status map holds as completed
PersistedCompleted == {m \in Units : ckpt.marketplace_status[m].status = "completed"}

\* a step in which the loop takes up marketplace m
Attempts(m) == rpc = "loop" /\ rpc' = "check" /\ marketplaces'[idx'] = m

\* C4: when a prior run on the key, finished or killed, left exactly a strict
\* subset S of the units completed in the checkpoint, start_pull(resume=True)
\* followed by get_incomplete_marketplaces(U) yields the units of U not in S,
\* in the order of U.
C4_ResumeYieldsIncomplete ==
    [][ (rpc \in Stopped /\ rpc' = "loop" /\ resume' /\ ckpt.exists
         /\ PersistedCompleted # Units)
        => marketplaces' =
               SelectSeq(ALL_MARKETPLACES, LAMBDA m : m \notin PersistedCompleted) ]_vars

C4_Witness ==
    /\ runs = 2
    /\ rpc = "loop"
    /\ idx = 0
    /\ resume
    /\ marketplaces = <<"CA">>
    /\ PersistedCompleted = {"USA", "MX"}

C6_CheckpointAfterData ==
    \A m \in PersistedCompleted :
        rows[m] /\ totals[m] /\ pulls[m].status = "completed"

C6_Witness ==
    /\ rpc = "idle"
    /\ ckpt.status = "in_progress"
    /\ PersistedCompleted = {"USA"}
    /\ rows["USA"]

----------------------------------------------------------------------------
(* Claims about the SQP/SCP batch resume *)

\* C7: across runs started with resume and without --force, killed ones
\* included, a batch index the persisted batch_status holds as completed
\* is neither removed from the persisted map nor set to another value.
C7_CompletedBatchKept ==
    [][ \A i \in BatchKeys :
          sqp_pull.batch_status[i] = "completed"
              => sqp_pull'.batch_status[i] = "completed" ]_vars

\* the batches of the running / last pull that existing does not hold as completed
Pending == {i \in 0 .. (total_batches - 1) : existing.batch_status[i] # "completed"}

\* the loop of the last pull ran to its end
LoopEnded == spc = "idle" /\ sqp_result.status \in {"completed", "partial", "failed"}
             /\ ~sqp_result.error

\* C8: a run with resume and without --force that finds a row of a killed pull
\* hands to the batch pull only batches the row does not hold as completed, and
\* by the end of its loop each of those; with five batches of which 0, 1 and 2
\* are persisted as completed these are batches 3 and 4.
C8_ResumePullsOnlyPending ==
    (sqp_resume /\ ~sqp_force /\ existing.exists /\ existing.status = "processing")
        => /\ pulled \subseteq Pending
           /\ LoopEnded => pulled = Pending

C8_Witness ==
    /\ sqp_resume /\ ~sqp_force
    /\ existing.exists /\ existing.status = "processing"
    /\ total_batches = 5
    /\ existing.batch_status = [i \in BatchKeys |-> IF i <= 2 THEN "completed" ELSE "none"]
    /\ LoopEnded
    /\ pulled = {3, 4}

----------------------------------------------------------------------------
(* Claims about finish_pull *)

\* the entries the tracker's status map holds
Entries == {m \in Units : tracker.marketplace_status[m].status # "absent"}
CompletedEntries == {m \in Entries : tracker.marketplace_status[m].status = "completed"}

\* the step in which pull_region_data calls finish_pull
FinishStep == rpc = "loop" /\ rpc' \in Stopped /\ tracker' = tracker

\* C11: the status finish_pull persists (and returns) is completed iff every
\* entry of the status map is completed, failed iff no entry is completed, and
\* partial iff neither.
C11_FinishStatus ==
    [][ FinishStep =>
          /\ ckpt'.status = "completed" <=> CompletedEntries = Entries
          /\ ckpt'.status = "failed" <=> CompletedEntries = {}
          /\ ckpt'.status = "partial" <=>
                 (CompletedEntries # Entries /\ CompletedEntries # {}) ]_vars

C11_Witness ==
    /\ rpc = "idle"
    /\ tracker.pull_id
    /\ ckpt.status = "partial"
    /\ CompletedEntries = {"USA", "MX"}
    /\ tracker.marketplace_status["CA"].status = "failed"

----------------------------------------------------------------------------
(* Claims about detect_gaps *)

\* the dates of the last call's window
Window == (end_date - lookback_days + 1) .. end_date

\* the dates of the window without a completed pull of at least one row; a date
\* before day 0 has no row
Missing ==
    {d \in Window : ~(d \in Dates /\ api_pulls[d].status = "completed"
                                  /\ api_pulls[d].asin_count > 0)}

\* what the list returned says of the table it was computed from
GapsAreMissing ==
    /\ {gaps[i].date : i \in 1..Len(gaps)} = Missing
    /\ \A i \in 1..(Len(gaps) - 1) : gaps[i].date < gaps[i + 1].date
    /\ \A d \in Window \cap Dates :
           (api_pulls[d].status = "completed" /\ api_pulls[d].asin_count = 0)
               => \E i \in 1..Len(gaps) : gaps[i].date = d

\* C12: detect_gaps returns, once each and in date order, exactly the dates of
\* [end_date - lookback_days + 1, end_date] that have no pull with status
\* completed and a positive row count; a date whose pull is completed with row
\* count 0 is among them.
C12_GapsAreMissingDates == detected => GapsAreMissing

C12_Witness ==
    /\ detected
    /\ lookback_days = 3
    /\ end_date = 2
    /\ api_pulls[0] = [status |-> "completed", asin_count |-> 1]
    /\ api_pulls[1] = [status |-> "completed", asin_count |-> 0]
    /\ api_pulls[2] = [status |-> "failed", asin_count |-> 0]
    /\ gaps = <<[date |-> 1, last_status |-> "completed"],
                [date |-> 2, last_status |-> "failed"]>>

----------------------------------------------------------------------------
(* Claims about a whole tracked run *)

\* pull_region_data of the last run returned
RunEnded == rpc = "idle" /\ runs > 0 /\ tracker.pull_id

\* the units of the last run in order, each with the status st
AllResults(st) ==
    results = [i \in 1..Len(ALL_MARKETPLACES) |->
                   [marketplace |-> ALL_MARKETPLACES[i], status |-> st]]

\* C13: a run over USA, CA, MX in which only CA's report pull was retried, on
\* two HTTP 500, and then succeeded ends with the three checkpoint entries
\* completed, with retries = 2 in CA's entry, and with no alert fired.
C13_RetriedUnitCompletes ==
    (/\ RunEnded
     /\ AllResults("completed")
     /\ http_retries = [m \in Units |-> IF m = "CA" THEN 2 ELSE 0])
        => /\ \A m \in Units : ckpt.marketplace_status[m].status = "completed"
           /\ ckpt.marketplace_status["CA"].retries = 2
           /\ alerts = <<>>

(***************************************************************************)
(* The typed errors of a call that gives up                                *)
(***************************************************************************)
\* the call has ended after max_retries retries without a response to return
GaveUp ==
    /\ cpc = "idle"
    /\ Len(log) = max_retries + 1
    /\ attempt = max_retries
    /\ result \notin {"none", "response"}

\* C16: a call that gives up after max_retries retries raises
\* SPAPIRateLimitError if its last response had status 429, and
\* SPAPITransientError if its last failure was a 500/502/503/504 response or a
\* connection/timeout exception.
C16_TypedErrorOnGiveUp ==
    GaveUp =>
        /\ (Last(log).kind = "status" /\ Last(log).code = 429)
               => result = "SPAPIRateLimitError"
        /\ (\/ Last(log).kind = "status" /\ Last(log).code \in {500, 502, 503, 504}
            \/ Last(log).kind \in TRANSIENT_EXCEPTIONS)
               => result = "SPAPITransientError"

C16_Witness ==
    /\ GaveUp
    /\ log[1].kind = "Timeout"
    /\ Last(log) = [kind |-> "status", code |-> 429]
    /\ result = "SPAPIRateLimitError"

\* C17: a call raises SPAPIRateLimitError or SPAPITransientError only after it
\* has made max_retries retries, never on an earlier attempt.
C17_TypedErrorOnlyAfterRetries ==
    result \in {"SPAPIRateLimitError", "SPAPITransientError"}
        => attempt = max_retries /\ Len(log) = max_retries + 1

(***************************************************************************)
(* A unit that fails after the client's retries                            *)
(***************************************************************************)
\* the process ran to its end, by a return or by an uncaught exception
ProcessEnded == rpc \in Stopped /\ exit_code # NoExit

\* unit m failed in this run after the client had used all its retries
Exhausted(m) ==
    /\ http_retries[m] = max_retries
    /\ \E i \in 1..Len(results) :
           results[i] = [marketplace |-> m, status |-> "failed"]

\* the partial-completion alerts the run fired
PartialAlerts == SelectSeq(alerts, LAMBDA a : a.kind = "partial")

\* C14: when a unit's pull fails after the client exhausted its retries, the
\* run that ends has recorded the unit as failed with the error text in the
\* checkpoint, has attempted every unit of the run, has finished the checkpoint
\* as partial if another unit completed, and has fired exactly one
\* partial-completion alert, which lists the completed and the failed units.
C14_FailedUnitHandled ==
    \A m \in Units :
        (ProcessEnded /\ Exhausted(m))
            => /\ ckpt.marketplace_status[m].status = "failed"
               /\ ckpt.marketplace_status[m].error = "SPAPIError"
               /\ Len(results) = Len(marketplaces)
               /\ (\E o \in Units : ckpt.marketplace_status[o].status = "completed")
                      => ckpt.status = "partial"
               /\ Len(PartialAlerts) = 1
               /\ PartialAlerts[1].completed = marketplaces_with(results, "completed")
               /\ PartialAlerts[1].failed = marketplaces_with(results, "failed")

\* C14 for the runs given a report_date (holds; the failure is the run with
\* report_date None)
C14_FailedUnitHandledDated ==
    report_date = "date" => C14_FailedUnitHandled

(***************************************************************************)
(* The exit code of the daily job                                          *)
(***************************************************************************)
\* a unit of the run succeeded: its data is there, pulled now or found
Succeeded == {i \in 1..Len(results) : results[i].status \in {"completed", "skipped"}}

\* a unit of the run failed
Failed == {i \in 1..Len(results) : results[i].status = "failed"}

\* C15: the daily job exits with the hard-failure code (1) only when no unit
\* succeeded; when a unit succeeded and a unit failed its exit code is not the
\* hard-failure code.
C15_HardExitOnlyWhenNoneSucceeded ==
    ProcessEnded
        => /\ exit_code = 1 => Succeeded = {}
           /\ (Succeeded # {} /\ Failed # {}) => exit_code # 1

\* C15 for the runs given a report_date, which return to main
C15_HardExitOnlyWhenNoneSucceededDated ==
    report_date = "date" => C15_HardExitOnlyWhenNoneSucceeded

(***************************************************************************)
(* Claims about poll_report_status                                         *)
(***************************************************************************)
\* C18: poll_report_status returns the document id on the first poll answered
\* DONE, raises RuntimeError on the first poll answered CANCELLED or FATAL, and
\* makes no status request after either.
C18_TerminalStatusEndsPolling ==
    \A i \in 1..Len(status_log) :
        /\ status_log[i] = "DONE"
              => i = Len(status_log) /\ ppc = "idle" /\ poll_result = "reportDocumentId"
        /\ status_log[i] \in {"CANCELLED", "FATAL"}
              => i = Len(status_log) /\ ppc = "idle" /\ poll_result = "RuntimeError"

C18_Witness ==
    /\ status_log = <<"IN_QUEUE", "IN_PROGRESS", "FATAL">>
    /\ poll_result = "RuntimeError"
    /\ ppc = "idle"

\* no poll of the call was answered with a terminal status
NoTerminalStatus ==
    \A i \in 1..Len(status_log) : status_log[i] \in {"IN_QUEUE", "IN_PROGRESS"}

\* what C19 says of a state
PollBounded ==
    poll_interval > 0 =>
        \* the polls are bounded
        /\ Len(status_log) <= (max_wait_seconds \div poll_interval) + 2
        \* the call polls again only if the last poll completed within the limit
        /\ (ppc = "request" /\ status_log # <<>>)
               => poll_elapsed - poll_interval <= max_wait_seconds
        \* TimeoutError is raised at a poll that completed after the limit
        /\ poll_result = "TimeoutError" => poll_elapsed > max_wait_seconds
        \* and a poll without terminal status that completed after the limit raises it
        /\ (ppc = "idle" /\ status_log # <<>> /\ NoTerminalStatus
                /\ poll_result # "SPAPIError")
               => poll_result = "TimeoutError"

\* C19: with poll_interval > 0 and status requests that terminate, a call of
\* poll_report_status terminates whatever the statuses are; without a terminal
\* status it raises TimeoutError at the first poll that completes after
\* max_wait_seconds, so the number of polls is bounded.
C19_PollingTerminates ==
    /\ []PollBounded
    /\ (ppc = "request" /\ poll_interval > 0) ~> (ppc = "idle")

C19_Witness ==
    /\ poll_interval > 0
    /\ max_wait_seconds = MaxWait
    /\ Len(status_log) > 2
    /\ NoTerminalStatus
    /\ poll_result = "TimeoutError"

(***************************************************************************)
(* Claims about get_delay                                                  *)
(***************************************************************************)
\* base_delay * 2^n of the strategy
Uncapped(n) == rs_config.base * Pow2(n)

\* min(base_delay * 2^n, max_delay) of the strategy
Capped(n) == Min(Uncapped(n), rs_config.max)

\* the calls of the history that were given no Retry-After header
Headerless == {i \in 1..Len(rs_calls) : rs_calls[i].retry_after = ""}

\* of two headerless calls in a row the one with the larger attempt number, if
\* it is not past max_delay, returned no less
NonDecreasing ==
    (/\ Len(rs_calls) = 2
     /\ Headerless = {1, 2}
     /\ rs_calls[1].attempt < rs_calls[2].attempt
     /\ Uncapped(rs_calls[2].attempt) <= rs_config.max)
        => rs_calls[1].delay <= rs_calls[2].delay

Numeric(i) == rs_calls[i].retry_after # "" /\ Parses(rs_calls[i].retry_after)

\* C21: given a response whose Retry-After parses as a number, get_delay
\* returns exactly that number whatever the attempt number, base_delay and
\* max_delay; it returns a backoff delay only when the header is absent or
\* does not parse.
C21_RetryAfterVerbatim ==
    \A i \in 1..Len(rs_calls) :
        /\ Numeric(i) => rs_calls[i].delay = Tenths * FloatOf(rs_calls[i].retry_after)
        /\ rs_calls[i].delay \in
               get_delay_backoff(rs_calls[i].attempt, rs_config.base, rs_config.max)
             => \/ ~Numeric(i)
                \/ rs_calls[i].delay = Tenths * FloatOf(rs_calls[i].retry_after)

C21_Witness ==
    /\ Len(rs_calls) = 2
    /\ rs_calls[1] = [attempt |-> MaxAttempt, retry_after |-> "2", delay |-> 20]
    /\ rs_calls[2] = [attempt |-> 0, retry_after |-> "0", delay |-> 0]

(***************************************************************************)
(* Claims about the notifications of a run                                 *)
(***************************************************************************)
\* C22: a tracked region run in which no unit failed has sent no Slack
\* notification; only runs with a failed unit send one.
C22_QuietWithoutFailure ==
    (ProcessEnded /\ Failed = {}) => alerts = <<>>

\* the posts of the run that were not delivered
Undelivered == {i \in 1..Len(alerts) : alerts[i].delivery # "200"}

\* C23: a post to Slack that is not delivered (no webhook, a non-200 answer,
\* an exception of the post) never raises into the pull and changes nothing the
\* pull records: the failed unit is recorded as failed with its error in the
\* checkpoint and in the results, the later units are attempted, and the run
\* ends as a run without the post would.
C23_AlertFailureHarmless ==
    /\ rpc = "raised" => report_date = "None"
    /\ \A i \in Undelivered :
           /\ alerts[i].sent = "False"
           /\ alerts[i].kind = "failure" =>
                  /\ ckpt.marketplace_status[alerts[i].marketplace].status = "failed"
                  /\ ckpt.marketplace_status[alerts[i].marketplace].error = alerts[i].error
                  /\ ProcessEnded =>
                         /\ Len(results) = Len(marketplaces)
                         /\ \E j \in 1..Len(results) :
                                results[j] = [marketplace |-> alerts[i].marketplace,
                                              status |-> "failed"]
           /\ alerts[i].kind # "failure" =>
                  /\ rpc = "idle"
                  /\ exit_code = main_exit(results)
                  /\ ckpt.status = finish_status(tracker)

C23_Witness ==
    /\ ProcessEnded
    /\ Len(alerts) = 3
    /\ alerts[1].kind = "failure" /\ alerts[1].delivery = "exception"
    /\ alerts[2].kind = "failure" /\ alerts[2].delivery = "no_webhook"
    /\ alerts[3].kind = "partial" /\ alerts[3].delivery = "500"
    /\ AllResults("failed") = FALSE

(***************************************************************************)
(* Claims about repair_gaps                                                *)
(***************************************************************************)
\* the gaps of a list, as a set (no list of main holds a gap twice)
GapSet(gs) == {gs[i] : i \in 1..Len(gs)}

\* C24: called with max_repairs >= 0, repair_gaps chooses exactly
\* min(max_repairs, |gaps|) of the gaps, reports remaining = |gaps| - attempted,
\* chooses no gap that is newer than a gap it leaves out, and in a real run
\* whose regions authenticate it has pulled exactly the chosen gaps on return.
C24_OldestGapsFirst ==
    (fpc # "idle" /\ max_repairs >= 0) =>
        /\ Len(gaps_to_fix) = Min(max_repairs, Len(gaps_arg))
        /\ Cardinality(GapSet(gaps_to_fix)) = Len(gaps_to_fix)
        /\ GapSet(gaps_to_fix) \subseteq GapSet(gaps_arg)
        /\ summary.attempted = Len(gaps_to_fix)
        /\ summary.remaining = Len(gaps_arg) - summary.attempted
        /\ \A a \in GapSet(gaps_to_fix), b \in GapSet(gaps_arg) \ GapSet(gaps_to_fix) :
               a.date <= b.date
        /\ GapSet(repair_pulls) \subseteq GapSet(gaps_to_fix)
        /\ (fpc = "returned" /\ ~dry_run
                /\ \A i \in 1..Len(summary.details) :
                       summary.details[i].status # "auth_failed")
               => GapSet(repair_pulls) = GapSet(gaps_to_fix)

C24_Witness ==
    /\ fpc = "returned"
    /\ gaps_arg = << [marketplace |-> "USA", date |-> 0], [marketplace |-> "USA", date |-> 1],
                     [marketplace |-> "UK", date |-> 0], [marketplace |-> "UK", date |-> 1] >>
    /\ max_repairs = 2
    /\ repair_pulls = << [marketplace |-> "USA", date |-> 0],
                         [marketplace |-> "UK", date |-> 0] >>
    /\ summary.remaining = 2

(***************************************************************************)
(* Claims about download_report                                            *)
(***************************************************************************)
\* the download ended with the error of a fetch of the payload
PayloadFailed ==
    /\ dpc = "idle"
    /\ payload_log # <<>>
    /\ report_data \in {"HTTPError", "ConnectionError", "Timeout"}

\* C25: a transient failure (connection error, timeout, 5xx) of the fetch of
\* the payload is retried under the client's retry strategy: download_report
\* fails with it only when max_retries retries of the fetch have failed too.
C25_PayloadFetchRetried ==
    (PayloadFailed /\ IsTransient(Last(payload_log)))
        => Len(payload_log) = max_retries + 1

(***************************************************************************)
(* Claims about the route of the SP-API requests                           *)
(***************************************************************************)
\* C26: every SP-API request of a pull path (report creation, status poll,
\* document fetch) is sent through SPAPIClient.request, hence after the
\* rate-limit wait, and a request that failed transiently with retries left is
\* followed by another request of the same step.
C26_AllRequestsThroughClient ==
    \A i \in 1..Len(http_log) :
        /\ http_log[i].via = "SPAPIClient.request"
        /\ http_log[i].waited
        /\ (IsTransient(http_log[i].outcome) /\ i = Len(http_log)
                /\ (i = 1 \/ http_log[i - 1].step # http_log[i].step))
               => pull_path # "none"

(***************************************************************************)
(* Claims about start_pull                                                 *)
(***************************************************************************)
\* the step is a start_pull
StartPullStep == rpc \in Stopped /\ rpc' = "loop"

\* the checkpoint start_pull finds is one it resumes
Resumable == ckpt.exists /\ ckpt.status \in {"in_progress", "partial"}

\* C27: start_pull(resume=True) adopts the persisted status map and error
\* count iff a checkpoint of the key exists with status in_progress or partial;
\* in every other case (none, completed, failed, or resume=False) it writes a
\* fresh checkpoint with an empty status map and error count 0.
C27_StartPullAdoptsOrResets ==
    [][ StartPullStep =>
          IF resume' /\ Resumable
          THEN /\ tracker'.marketplace_status = ckpt.marketplace_status
               /\ tracker'.error_count = ckpt.error_count
               /\ ckpt'.marketplace_status = ckpt.marketplace_status
               /\ ckpt'.error_count = ckpt.error_count
               /\ ckpt'.status = "in_progress"
          ELSE /\ ckpt'.exists
               /\ ckpt'.status = "in_progress"
               /\ ckpt'.marketplace_status = EmptyStatus
               /\ ckpt'.error_count = 0
               /\ tracker'.marketplace_status = EmptyStatus
               /\ tracker'.error_count = 0 ]_vars

C27_Witness ==
    /\ runs = 2
    /\ rpc = "loop"
    /\ idx = 0
    /\ resume
    /\ ckpt.status = "in_progress"
    /\ tracker.error_count = 1
    /\ tracker.marketplace_status["USA"].status = "completed"
    /\ tracker.marketplace_status["CA"].status = "failed"
    /\ tracker.marketplace_status["MX"].status = "completed"

(***************************************************************************)
(* Claims about the persisted overall status                               *)
(***************************************************************************)
\* the persisted overall status is one a run ends with
FinalStatuses == {"completed", "partial", "failed"}

\* C28: within one tracked run the persisted overall status never goes back
\* to in_progress once it is partial, completed or failed; only the
\* start_pull of a later run may write in_progress again.
C28_StatusNeverBackToInProgress ==
    [][ (~StartPullStep /\ ckpt.exists /\ ckpt.status \in FinalStatuses)
          => ckpt'.status # "in_progress" ]_vars

(***************************************************************************)
(* Claims about the persisted unit status map                              *)
(***************************************************************************)
\* C29: after start_pull every start_marketplace, complete_marketplace and
\* fail_marketplace writes the whole in-memory unit status map to the
\* checkpoint record before it returns: whenever a tracker holds a pull id,
\* at any point where the process may be killed, the persisted map equals the
\* in-memory map, and a kill leaves the persisted map as it is.
C29_PersistedMapIsInMemoryMap ==
    tracker.pull_id =>
        /\ ckpt.exists
        /\ ckpt.marketplace_status = tracker.marketplace_status

C29_Witness ==
    /\ rpc = "check"
    /\ idx = 3
    /\ tracker.pull_id
    /\ tracker.marketplace_status["USA"].status = "failed"
    /\ tracker.marketplace_status["CA"].status = "completed"
    /\ tracker.marketplace_status["MX"].status = "in_progress"
    /\ ckpt.marketplace_status = tracker.marketplace_status

(***************************************************************************)
(* Claims about finish_pull                                                *)
(***************************************************************************)
\* the step is a finish_pull: the loop is left with the tracker still in memory
FinishPullStep == rpc = "loop" /\ rpc' \in Stopped /\ tracker.pull_id /\ tracker' = tracker

\* C30: finish_pull stamps the completion time (and, under the same condition,
\* the total duration) on the checkpoint record for every final status it
\* sets: completed, partial and failed.
C30_FinishStampsCompletion ==
    [][ (FinishPullStep /\ ckpt'.status \in FinalStatuses) => ckpt'.completed_at ]_vars

(***************************************************************************)
(* Claims about update_from_response                                       *)
(***************************************************************************)
\* the step is one HTTP attempt of request that was answered with a response
ResponseStep ==
    /\ cpc = "loop"
    /\ Len(log') = Len(log) + 1
    /\ ~IsException(log'[Len(log')])

\* the x-amzn-RateLimit-Limit header h parses to a number greater than 0
PositiveLimit(h) == Parses(h) /\ FloatOf(h) > 0

\* C31: update_from_response changes only the limit of the given category,
\* and only when the x-amzn-RateLimit-Limit header parses to a number greater
\* than 0; a zero, negative, non-numeric or absent value leaves every limit
\* unchanged and does not raise: a response below 400 is still returned.
C31_LimitChangesOnlyOnPositiveHeader ==
    [][ /\ (ResponseStep /\ PositiveLimit(limit_header'))
             => current_limits' =
                  [current_limits EXCEPT ![api_type] = FloatOf(limit_header')]
        /\ ~(ResponseStep /\ PositiveLimit(limit_header'))
             => current_limits' = current_limits
        /\ (ResponseStep /\ log'[Len(log')].code < 400) => result' = "response" ]_vars

C31_Witness ==
    /\ limit_header = "-1"
    /\ api_type = "default"
    /\ result = "response"
    /\ current_limits["default"] = 2
    /\ current_limits["reports_get"] = 0

(***************************************************************************)
(* Claims about SPAPIClient.__init__                                       *)
(***************************************************************************)
\* C32: each of max_retries, base_delay, max_delay and timeout passed
\* explicitly to SPAPIClient is the value the client and its RetryStrategy
\* use, for every explicitly passed value including 0; the environment-derived
\* default is used only for a parameter that was not passed.
C32_ExplicitParameterUsed ==
    new_client.built =>
        \A p \in Params :
            LET expected == IF ctor_args[p] # NoArg THEN ctor_args[p] ELSE ctor_env[p]
            IN  /\ new_client.attrs[p] = expected
                /\ p # "timeout" => new_client.retry_strategy[p] = expected

(***************************************************************************)
(* Claims about record_asin_error                                          *)
(***************************************************************************)
\* C33: an ASIN is marked suppressed only after 3 consecutive failures of
\* that ASIN; failures separated by a successful pull of the ASIN do not add
\* up to a suppression.
C33_SuppressedAfterConsecutiveFailures ==
    \A a \in Asins : asin_errors[a].suppressed => streak[a] >= SUPPRESS_AFTER

(***************************************************************************)
(* Claims about failed batches of an SQP/SCP pull                          *)
(***************************************************************************)
\* pull_for_marketplace went into its batch loop and returned
SqpPullReturned ==
    /\ spc = "idle"
    /\ sqp_runs > 0
    /\ sqp_result.status \in {"completed", "partial", "failed"}

\* C34: a batch whose pull fails with any error, a poll timeout or a payload
\* download error included, is recorded as failed in the persisted
\* batch_status, and every later batch of that pull is still attempted: when
\* the pull has returned, every batch was pulled or skipped as completed, and
\* every batch pulled without success is persisted as failed.
C34_FailedBatchRecordedAndLoopGoesOn ==
    SqpPullReturned =>
        \A i \in 0 .. (total_batches - 1) :
            /\ i \in pulled \/ batch_status[i] = "completed"
            /\ (i \in pulled /\ batch_status[i] # "completed")
                   => sqp_pull.batch_status[i] = "failed"

(***************************************************************************)
(* Claims about the client's statistics                                    *)
(***************************************************************************)
\* C35: after any sequence of finished request calls on one client (no
\* reset_stats in between), stats.requests = stats.retries + the number of
\* calls made, stats.errors = the number of calls that raised a typed SP-API
\* error, and stats.rate_limit_waits <= stats.retries.
C35_StatsIdentities ==
    cpc = "idle" =>
        /\ stats.requests = stats.retries + calls
        /\ stats.errors = raised
        /\ stats.rate_limit_waits <= stats.retries

C35_Witness ==
    /\ cpc = "idle"
    /\ calls = 2
    /\ stats = [requests |-> 5, retries |-> 3, rate_limit_waits |-> 1, errors |-> 1]
    /\ raised = 1
    /\ result = "response"

(***************************************************************************)
(* Claims about the persisted row total                                    *)
(***************************************************************************)
\* the sum of row_count over the units of S in the status map ms
RECURSIVE RowSum(_, _)
RowSum(ms, S) ==
    IF S = {} THEN 0
    ELSE LET m == CHOOSE x \in S : TRUE
         IN  ms[m].row_count + RowSum(ms, S \ {m})

\* C36: after any sequence of tracker operations, a kill followed by
\* start_pull(resume=True) and further completions included, the persisted
\* total_row_count equals the sum of row_count over the units whose persisted
\* status is completed.
C36_TotalIsSumOfCompleted ==
    ckpt.exists =>
        ckpt.total_row_count = RowSum(ckpt.marketplace_status, PersistedCompleted)

(***************************************************************************)
(* Claims about the resume over a changed ASIN list                        *)
(***************************************************************************)
\* C37: when an SQP/SCP pull is resumed, a batch index is skipped as
\* completed only if the ASINs assigned to that index in the current run are
\* the ASINs that were pulled when the index was persisted as completed; a
\* resumed pull that ends completed has pulled every ASIN that was active in
\* the resumed run, even if the active ASIN list changed between the runs.
C37_SkippedIndexHoldsSameAsins ==
    /\ \A i \in b_skipped : batch_set(i) = b_with[i]
    /\ (bpc = "idle" /\ b_result.status = "completed")
           => \A k \in 1 .. Len(b_asins) : b_asins[k] \in b_covered

(***************************************************************************)
(* Claims about the orders / Sales & Traffic precedence                    *)
(***************************************************************************)
\* C38: for one (marketplace, date, ASIN), a row written with data_source
\* sales_traffic is never overwritten by upsert_orders_asin_data, also when
\* the orders upsert and the Sales & Traffic upsert run as concurrent
\* processes whose reads and writes interleave.
C38_SalesTrafficRowKept ==
    \A a \in st_written : daily_data[a] = "sales_traffic"

(***************************************************************************)
(* Claims about the summary of repair_gaps                                 *)
(***************************************************************************)
\* the (marketplace, date) of the entries of details
DetailGaps == {[marketplace |-> summary.details[i].marketplace,
                date |-> summary.details[i].date] : i \in 1..Len(summary.details)}

\* C39: for every non-empty gap list the summary repair_gaps returns has
\* total_gaps = attempted + remaining; in a real run repaired + failed =
\* attempted with exactly one detail entry per attempted gap, also when the
\* authentication of a region fails; in a dry run skipped = attempted,
\* repaired = failed = 0 and no pull is invoked.
C39_SummaryIdentities ==
    (fpc = "returned" /\ gaps_arg # <<>>) =>
        /\ summary.total_gaps = Len(gaps_arg)
        /\ summary.total_gaps = summary.attempted + summary.remaining
        /\ Len(summary.details) = summary.attempted
        /\ DetailGaps = GapSet(gaps_to_fix)
        /\ IF dry_run
           THEN /\ summary.skipped = summary.attempted
                /\ summary.repaired = 0
                /\ summary.failed = 0
                /\ repair_pulls = <<>>
           ELSE /\ summary.repaired + summary.failed = summary.attempted
                /\ summary.skipped = 0

C39_Witness ==
    /\ fpc = "returned"
    /\ ~dry_run
    /\ summary.attempted = 2
    /\ summary.repaired = 1
    /\ summary.failed = 1
    /\ \E i \in 1..Len(summary.details) : summary.details[i].status = "auth_failed"
    /\ \E i \in 1..Len(summary.details) : summary.details[i].status = "completed"

(***************************************************************************)
(* Claims about the end of pull_region_data                                *)
(***************************************************************************)
\* C40: pull_region_data finishes the checkpoint and returns its result list
\* for every input the command line can pass, report_date = None
\* (per-marketplace dates) included; the final summary/alert step never
\* raises: a process that ran to its end returned to main with one result per
\* unit and a finished checkpoint.
C40_RegionRunReturns ==
    ProcessEnded =>
        /\ rpc = "idle"
        /\ ckpt.status \in FinalStatuses
        /\ Len(results) = Len(marketplaces)
        /\ exit_code = main_exit(results)

====
